---- MODULE Spec2Model ----
(***************************************************************************)
(* Ride-hailing backend (isuride): ride state machine, dispatcher,         *)
(* idle-chair pool, pending-ride queue, chair event bus and chair          *)
(* notification stream.                                                    *)
(*                                                                         *)
(* Sources: app/go/app_handlers.go (user-side handlers),                   *)
(* the chair handlers (chairPostActivity, chairPostCoordinate,             *)
(* chairGetNotification, chairPostRideStatus), the dispatcher              *)
(* (init ticker, internalGetMatching), app/go/event_bus.go and             *)
(* app/go/badger.go.                                                       *)
(***************************************************************************)
EXTENDS Integers, Sequences, FiniteSets, TLC

VARIABLES
    rides,              \* relational table rides: ride id (1..Len) -> row
    rideStatusesCache,  \* ride id -> latest ride status (getLatestRideStatus)
    matchingRides,      \* pending-ride queue (slice of ride ids)
    emptyChairs,        \* idle-chair pool (slice of chairs, duplicates possible)
    latestRideCache,    \* chair -> latest ride id (NoRide when absent)
    chairActive,        \* chairs.is_active
    chairStatusBadger,  \* KV record "status"||chairID: NoStatus or [status, rideID]
    locationCache,      \* chair -> last known coordinate (NoLocation when absent)
    chairEventBus,      \* chair -> list of subscriber channels (buffers)
    chairStream,        \* chair -> its chairGetNotification request: ride, channel, last frame (observation)
    postRidesTx,        \* appPostRides transactions that passed the count check
    lastCall,           \* observation: the handler call (or dispatcher pass) that returned last
    chairPublishers,    \* ChairPublish calls that hold the read lock: [id, key, next]
    publishReturned,    \* ids of the ChairPublish calls that have returned
    subscriberDone,     \* key -> per subscribed channel: has its stream returned?
    locationKV,         \* KV record "location"||chairID: NoLocation or the chairLocation
    locationTxns,       \* badgerDB.Update transactions of updateChairLocationToBadger, running or returned
    commitLog,          \* observation: chair -> coordinates of the updates that committed, in commit order
    matchingPass,       \* the dispatcher pass in progress, when it is followed statement by statement
    paymentCalls,       \* calls of requestPaymentGatewayPostPayment: key, retry, keys sent, result
    ulidCount,          \* ulid.Make() values drawn so far by the payment client
    evaluationTx,       \* appPostRideEvaluatation transactions that passed the status check
    skipCounter,        \* the ticker goroutine's count of ticks since its last dispatcher pass
    assignmentResults,  \* the last HungarianAlgorithm call: its cost table and the assignment returned
    locationRecord,     \* the last location aggregate encoded: the aggregate, its record, what decoding gave
    coupons,            \* user -> the user's coupons rows in created_at order: code, discount, used_by
    lastFare            \* the fare of the last fare computation answered, and what it was for

vars == <<rides, rideStatusesCache, matchingRides, emptyChairs, latestRideCache,
          chairActive, chairStatusBadger, locationCache, chairEventBus,
          chairStream, postRidesTx, lastCall,
          chairPublishers, publishReturned, subscriberDone,
          locationKV, locationTxns, commitLog, matchingPass, paymentCalls, ulidCount,
          evaluationTx, skipCounter, assignmentResults, locationRecord, coupons, lastFare>>

\* the state of the event bus component (stepwise publishes)
busVars == <<chairPublishers, publishReturned, subscriberDone>>

\* the state of the location store component (stepwise transactions)
locVars == <<locationKV, locationTxns, commitLog>>

\* the variables the handlers of the ride life cycle leave alone
\* the state of the payment client component
payVars == <<paymentCalls, ulidCount, evaluationTx>>

\* the state of the coupons and fares
fareVars == <<coupons, lastFare>>

\* the state of the pure functions checked on their own
pureVars == <<assignmentResults, locationRecord>>

\* the state of the components that are followed step by step
componentVars == <<busVars, locVars, matchingPass, payVars, skipCounter, pureVars>>

moreVars == <<componentVars, fareVars>>

----------------------------------------------------------------------------
(* Bounds *)

MaxRides == 1       \* rides created in one behaviour of the life-cycle specification
MaxCreates == 2     \* rides created in one behaviour of the other specifications
MaxPool == 2        \* cap on the length of the emptyChairs slice
ChanCap == 2        \* subscriber channel buffer (make(chan *RideEvent, 100)), scaled
MaxSubscribers == 2 \* channels subscribed to one bus key
MaxPublishes == 3   \* ChairPublish calls in one behaviour of the bus specification
MaxPings == 3       \* updateChairLocationToBadger calls in one behaviour of the location store
MaxPaymentCalls == 2 \* requestPaymentGatewayPostPayment calls in one behaviour of the payment client
MaxEvaluations == 2 \* evaluation requests that get past the status check in one behaviour
MaxDim == 2         \* rows and columns of a cost table given to HungarianAlgorithm

Users == {"u1", "u2"}
Chairs == {"c1", "c2"}
NoChair == "nochair"     \* rides.chair_id IS NULL
NoRide == 0
NoLocation == <<>>
NoStatus == [status |-> "NONE", rideID |-> 0]   \* badger.ErrKeyNotFound

\* Coordinates are <<latitude, longitude>>.
Coords == {<<0, 0>>, <<0, 1>>, <<1, 1>>}
\* pickup/destination pairs offered to appPostRides
Routes == {[pickup |-> <<0, 0>>, dest |-> <<1, 1>>],
           [pickup |-> <<0, 1>>, dest |-> <<0, 1>>]}

\* Statuses a chair may send to POST /api/chair/rides/{ride_id}/status.
StatusInputs == {"ENROUTE", "CARRYING", "COMPLETED"}

\* time.Since(ride.CreatedAt) in milliseconds, as seen by one pass
Ages == {0, 25000}

PhaseOrder == <<"MATCHING", "MATCHED", "ENROUTE", "PICKUP", "CARRYING", "ARRIVED", "COMPLETED">>

\* chairModelSpeedCache[ch.Model] for the two chairs ("ComfortBasic", "AeroSeat")
chairModelSpeedCache == [c \in Chairs |-> IF c = "c1" THEN 2 ELSE 3]

----------------------------------------------------------------------------
(* Helpers *)

abs(a) == IF a < 0 THEN -a ELSE a

distance(lat1, lon1, lat2, lon2) == abs(lat1 - lat2) + abs(lon1 - lon2)

RideIds == 1..Len(rides)

SeqToSet(s) == {s[i] : i \in DOMAIN s}

\* all orderings of a finite set
RECURSIVE Perms(_)
Perms(S) == IF S = {} THEN {<<>>}
            ELSE UNION {{<<x>> \o p : p \in Perms(S \ {x})} : x \in S}

\* the rides row that ../sql/init.sh removes: ride ids are ULIDs and are never
\* handed out again, so the id stays taken; the row belongs to no user and to
\* no chair any more (the Ride struct a goroutine still holds keeps its
\* coordinates)
DeletedRide(row) == [row EXCEPT !.user = "", !.chair = NoChair]

\* SELECT ... FROM rides WHERE id = ? finds a row
RideInStore(rs, r) == r \in DOMAIN rs /\ rs[r].user # ""

\* getLatestRideStatus: the latest status held for the ride
getLatestRideStatus(r) == rideStatusesCache[r]

\* countOngoingRides: rides of the user whose latest status is not COMPLETED
\* mutant: no ride counts as ongoing
countOngoingRides_None(u) == 0

countOngoingRides(u) ==
    Cardinality({r \in RideIds : rides[r].user = u /\ rideStatusesCache[r] # "COMPLETED"})

NoPass == [ending |-> "none", rides |-> <<>>, chairs |-> <<>>, matches |-> {}, assigned |-> <<>>]

\* what a returned call is remembered by: the request, the response code, the
\* ride's status when the call started and when it returned, the events it
\* published on each bus
Call(op, who, ride, req, code, before, after, cpub, upub) ==
    [op |-> op, who |-> who, ride |-> ride, req |-> req, code |-> code,
     before |-> before, after |-> after,
     chairPub |-> cpub, userPub |-> upub, pass |-> NoPass]

Ev(key, status, ride) == [key |-> key, status |-> status, ride |-> ride]

\* `ch <- message` on a buffered channel returns only when the buffer has room
CanPublish(c) == c \in Chairs => \A i \in DOMAIN chairEventBus[c] : Len(chairEventBus[c][i]) < ChanCap

\* ChairPublish: send to every channel registered for the key, in registration order
ChairPublish(bus, c, status, ride) ==
    IF c \in Chairs
    THEN [bus EXCEPT ![c] = [i \in DOMAIN @ |-> Append(@[i], Ev(c, status, ride))]]
    ELSE bus

----------------------------------------------------------------------------
\* the KV records initBadger writes from the chair_locations rows: c1 has
\* never pinged, c2 has pinged (0,0) and then (1,0)
SeedLocation ==
    [c \in Chairs |->
        IF c = "c1" THEN NoLocation
        ELSE [TotalDistance |-> 1, LastLatitude |-> 1, LastLongitude |-> 0]]

\* the coupons the users hold after registration (appPostUsers): the
\* first-ride coupon, and for u2, who registered with an invitation code,
\* the invitation coupon
CouponSeed ==
    [u \in Users |->
        IF u = "u1"
        THEN <<[code |-> "CP_NEW2024", discount |-> 3000, usedBy |-> NoRide]>>
        ELSE <<[code |-> "CP_NEW2024", discount |-> 3000, usedBy |-> NoRide],
               [code |-> "INV_u1", discount |-> 1500, usedBy |-> NoRide]>>]

\* no fare computed yet
NoFare == [op |-> "none", user |-> "", ride |-> NoRide, pickup |-> <<0, 0>>, dest |-> <<0, 0>>,
           discount |-> 0, fare |-> 0]

\* no dispatcher pass in progress
\* before the first HungarianAlgorithm call
NoAssignment == [table |-> <<>>, totalCost |-> 0, assignment |-> <<>>]

\* before the first encodeChairLocation call
NoRecord == [location |-> <<>>, data |-> <<>>, decoded |-> <<>>]

IdlePass == [phase |-> "idle", ms |-> <<>>, assigned |-> <<>>, rides |-> <<>>, chairs |-> {}]

Init ==
    /\ rides = <<>>
    /\ rideStatusesCache = <<>>
    /\ matchingRides = <<>>
    /\ emptyChairs = <<>>
    /\ latestRideCache = [c \in Chairs |-> NoRide]
    /\ chairActive = [c \in Chairs |-> FALSE]
    /\ chairStatusBadger = [c \in Chairs |-> NoStatus]
    /\ locationCache = [c \in Chairs |-> NoLocation]
    /\ chairEventBus = [c \in Chairs |-> <<>>]
    /\ chairStream = [c \in Chairs |-> [on |-> FALSE, ride |-> NoRide, idx |-> 0, sent |-> ""]]
    /\ postRidesTx = <<>>
    /\ lastCall = [op |-> "init", who |-> "", ride |-> NoRide, req |-> "", code |-> 0,
                   before |-> "", after |-> "", chairPub |-> <<>>, userPub |-> <<>>,
                   pass |-> NoPass]
    /\ chairPublishers = {}
    /\ publishReturned = {}
    /\ subscriberDone = [c \in Chairs |-> <<>>]
    /\ locationKV = SeedLocation
    /\ locationTxns = {}
    /\ commitLog = [c \in Chairs |-> <<>>]
    /\ matchingPass = IdlePass
    /\ paymentCalls = <<>>
    /\ ulidCount = 0
    /\ evaluationTx = <<>>
    /\ skipCounter = 0
    /\ assignmentResults = NoAssignment
    /\ locationRecord = NoRecord
    /\ coupons = CouponSeed
    /\ lastFare = NoFare

----------------------------------------------------------------------------
(* User-side handlers *)

\* Enqueue into the pending-ride queue on ride creation.
EnqueuePending(q, r) == Append(q, r)

\* POST /api/app/rides, first part: BEGIN; countOngoingRides (a plain,
\* non-locking SELECT); 409 when the count is positive.  The transaction
\* stays open until appPostRidesCommit.  cap bounds the rides of a behaviour.
calculateDistance(aLatitude, aLongitude, bLatitude, bLongitude) ==
    abs(aLatitude - bLatitude) + abs(aLongitude - bLongitude)

initialFare == 500
farePerDistance == 100

calculateFare(pickup, dest) ==
    initialFare + farePerDistance * calculateDistance(pickup[1], pickup[2], dest[1], dest[2])

\* mutant: the discounted fare is not clamped
DiscountedFare_NoClamp(pickup, dest, discount) ==
    initialFare + farePerDistance * calculateDistance(pickup[1], pickup[2], dest[1], dest[2])
        - discount

\* the arithmetic of calculateDiscountedFare:
\* initialFare + max(meteredFare - discount, 0)
DiscountedFare(pickup, dest, discount) ==
    LET meteredFare == farePerDistance * calculateDistance(pickup[1], pickup[2], dest[1], dest[2])
        discountedMeteredFare == IF meteredFare - discount > 0 THEN meteredFare - discount ELSE 0
    IN initialFare + discountedMeteredFare

\* ... WHERE used_by IS NULL ORDER BY created_at LIMIT 1: the index of the
\* oldest unused coupon, 0 when there is none
FirstUnused(cs) ==
    LET unused == {i \in DOMAIN cs : cs[i].usedBy = NoRide}
    IN IF unused = {} THEN 0 ELSE CHOOSE i \in unused : \A j \in unused : i <= j

\* ... WHERE code = 'CP_NEW2024' AND used_by IS NULL, falling back to the
\* oldest unused coupon
NewUserFirst(cs) ==
    LET new == {i \in DOMAIN cs : cs[i].code = "CP_NEW2024" /\ cs[i].usedBy = NoRide}
    IN IF new = {} THEN FirstUnused(cs) ELSE CHOOSE i \in new : TRUE

\* mutant: the estimate looks at no coupon
EstimateCoupon_None(cs) == 0

\* the coupon calculateDiscountedFare prices with when ride == nil
EstimateCoupon(cs) == NewUserFirst(cs)

\* mutant: the first-ride coupon is taken whether it is used or not
CreateCoupon_NewEvenIfUsed(cs, rideCount) ==
    LET new == {i \in DOMAIN cs : cs[i].code = "CP_NEW2024"}
    IN IF new = {} THEN FirstUnused(cs) ELSE CHOOSE i \in new : TRUE

\* the coupon appPostRides binds (SELECT ... FOR UPDATE): on the user's first
\* ride the first-ride coupon before the others
CreateCoupon(cs, rideCount) ==
    IF rideCount = 1 THEN NewUserFirst(cs) ELSE FirstUnused(cs)

\* the discount of the coupon at index i, 0 for no coupon
Discount(cs, i) == IF i = 0 THEN 0 ELSE cs[i].discount

\* calculateDiscountedFare(ctx, tx, user.ID, nil, ...): the fare the estimate
\* answers
EstimatedFare(u, route) ==
    DiscountedFare(route.pickup, route.dest, Discount(coupons[u], EstimateCoupon(coupons[u])))

\* POST /api/app/rides/estimated-fare
appPostRidesEstimatedFare(u, route) ==
    /\ LET discounted == EstimatedFare(u, route)
       IN lastFare' = [op |-> "estimate", user |-> u, ride |-> NoRide,
                       pickup |-> route.pickup, dest |-> route.dest,
                       discount |-> calculateFare(route.pickup, route.dest) - discounted,
                       fare |-> discounted]
    /\ UNCHANGED <<rides, rideStatusesCache, matchingRides, emptyChairs, latestRideCache,
                   chairActive, chairStatusBadger, locationCache, chairEventBus,
                   chairStream, postRidesTx, lastCall, coupons, componentVars>>

\* the arithmetic of calculateDiscountedFare on its own
calculateDiscountedFare(pickup, dest, discount) ==
    /\ lastFare' = [op |-> "fare", user |-> "", ride |-> NoRide, pickup |-> pickup, dest |-> dest,
                    discount |-> discount, fare |-> DiscountedFare(pickup, dest, discount)]
    /\ UNCHANGED <<rides, rideStatusesCache, matchingRides, emptyChairs, latestRideCache,
                   chairActive, chairStatusBadger, locationCache, chairEventBus,
                   chairStream, postRidesTx, lastCall, coupons, componentVars>>

appPostRidesBegin(u, route, cap) ==
    /\ IF countOngoingRides(u) > 0
       THEN /\ lastCall' = Call("postRides", u, NoRide, "", 409, "", "", <<>>, <<>>)
            /\ UNCHANGED postRidesTx
       ELSE /\ Len(rides) + Len(postRidesTx) < cap
            /\ postRidesTx' = Append(postRidesTx,
                   [user |-> u, route |-> route,
                    seen |-> Cardinality({r \in RideIds : rides[r].user = u})])
            /\ UNCHANGED lastCall
    /\ UNCHANGED <<rides, rideStatusesCache, matchingRides, emptyChairs, latestRideCache,
                   chairActive, chairStatusBadger, locationCache, chairEventBus,
                   chairStream>>
    /\ UNCHANGED moreVars

\* POST /api/app/rides, second part: INSERT rides, INSERT ride_statuses
\* MATCHING, the coupon (rideCount is read in the transaction's snapshot),
\* the fare, COMMIT, enqueue, UserPublish MATCHING, 202.
appPostRidesCommit(i) ==
    /\ i \in DOMAIN postRidesTx
    /\ LET t == postRidesTx[i]
           rideID == Len(rides) + 1
       IN /\ rides' = Append(rides, [user |-> t.user, chair |-> NoChair,
                                     pickup |-> t.route.pickup, dest |-> t.route.dest,
                                     evaluation |-> 0])
          /\ rideStatusesCache' = Append(rideStatusesCache, "MATCHING")
          /\ matchingRides' = EnqueuePending(matchingRides, rideID)
          /\ lastCall' = Call("postRides", t.user, rideID, "", 202, "", "MATCHING",
                              <<>>, <<Ev(t.user, "MATCHING", rideID)>>)
          /\ LET coupon == CreateCoupon(coupons[t.user], t.seen + 1)
             IN /\ coupons' = IF coupon = 0 THEN coupons
                              ELSE [coupons EXCEPT ![t.user][coupon].usedBy = rideID]
                /\ lastFare' = [op |-> "create", user |-> t.user, ride |-> rideID,
                                pickup |-> t.route.pickup, dest |-> t.route.dest,
                                discount |-> Discount(coupons[t.user], coupon),
                                fare |-> DiscountedFare(t.route.pickup, t.route.dest,
                                                        Discount(coupons[t.user], coupon))]
    /\ postRidesTx' = [j \in 1..(Len(postRidesTx) - 1) |->
                          IF j < i THEN postRidesTx[j] ELSE postRidesTx[j + 1]]
    /\ UNCHANGED <<emptyChairs, latestRideCache, chairActive, chairStatusBadger,
                   locationCache, chairEventBus, chairStream>>
    /\ UNCHANGED componentVars

\* POST /api/app/rides/{ride_id}/evaluation
\* var erroredUpstream = errors.New("errored upstream")
erroredUpstream == "errored upstream"

\* if errors.Is(err, erroredUpstream) { 502 } else { 500 }
PaymentFailureStatus(err) == IF err = erroredUpstream THEN 502 ELSE 500

\* mutant: a ride that is still carrying can be evaluated
EvaluationAllowed_Carrying(status) == status \in {"ARRIVED", "CARRYING"}

\* if status != "ARRIVED" { 400 }
EvaluationAllowed(status) == status = "ARRIVED"

\* payment is "ok" or the error requestPaymentGatewayPostPayment returned
appPostRideEvaluatation(r, evaluation, payment) ==
    LET before == IF r \in RideIds THEN getLatestRideStatus(r) ELSE ""
        reject(code) ==
            /\ lastCall' = Call("evaluation", "", r, evaluation, code, before, before, <<>>, <<>>)
            /\ UNCHANGED <<rides, rideStatusesCache, chairEventBus>>
    IN /\ IF evaluation < 1 \/ evaluation > 5 THEN reject(400)
          ELSE IF r \notin RideIds THEN reject(404)
          ELSE IF ~EvaluationAllowed(before) THEN reject(400)
          ELSE IF payment # "ok" THEN reject(PaymentFailureStatus(payment))
          ELSE /\ CanPublish(rides[r].chair)
               /\ rides' = [rides EXCEPT ![r].evaluation = evaluation]
               /\ rideStatusesCache' = [rideStatusesCache EXCEPT ![r] = "COMPLETED"]
               /\ chairEventBus' = ChairPublish(chairEventBus, rides[r].chair, "COMPLETED", r)
               /\ lastCall' = Call("evaluation", rides[r].user, r, evaluation, 200, before, "COMPLETED",
                                   <<Ev(rides[r].chair, "COMPLETED", r)>>,
                                   <<Ev(rides[r].user, "COMPLETED", r)>>)
       /\ UNCHANGED <<matchingRides, emptyChairs, latestRideCache, chairActive,
                      chairStatusBadger, locationCache, chairStream, postRidesTx>>
       /\ UNCHANGED moreVars

----------------------------------------------------------------------------
(* Chair-side handlers *)

\* updateChairStatusToBadger
updateChairStatusToBadger(kv, c, status, rideID) ==
    [kv EXCEPT ![c] = [status |-> status, rideID |-> rideID]]

\* the first element equal to c removed (append(emptyChairs[:i], emptyChairs[i+1:]...); break)
RemoveFirst(s, c) ==
    IF c \notin SeqToSet(s) THEN s
    ELSE LET i == CHOOSE k \in DOMAIN s : s[k] = c /\ \A j \in 1..(k - 1) : s[j] # c
         IN [j \in 1..(Len(s) - 1) |-> IF j < i THEN s[j] ELSE s[j + 1]]

\* POST /api/chair/activity
chairPostActivity(c, isActive) ==
    /\ chairActive' = [chairActive EXCEPT ![c] = isActive]
    /\ IF isActive
       THEN LET ok == chairStatusBadger[c] # NoStatus
                \* getChairStatusFromBadger returns the zero record when the key is absent
                status == IF ok THEN chairStatusBadger[c].status ELSE "AVAILABLE"
            IN /\ chairStatusBadger' = IF ok THEN chairStatusBadger
                                       ELSE updateChairStatusToBadger(chairStatusBadger, c, "AVAILABLE", NoRide)
               /\ IF status = "AVAILABLE"
                  THEN /\ Len(emptyChairs) < MaxPool
                       /\ emptyChairs' = Append(emptyChairs, c)
                  ELSE UNCHANGED emptyChairs
       ELSE /\ emptyChairs' = RemoveFirst(emptyChairs, c)
            /\ UNCHANGED chairStatusBadger
    /\ lastCall' = Call("activity", c, NoRide, isActive, 204, "", "", <<>>, <<>>)
    /\ UNCHANGED <<rides, rideStatusesCache, matchingRides, latestRideCache, locationCache,
                   chairEventBus, chairStream, postRidesTx>>
    /\ UNCHANGED moreVars

\* updateChairLocationToBadger, last coordinate only
updateChairLocationToBadger(loc, c, coordinate) == [loc EXCEPT ![c] = coordinate]

\* mutant: the pickup is recognised by its latitude alone
CoordinateNewStatus_LatitudeOnly(r, coordinate) ==
    LET status == getLatestRideStatus(r)
    IN IF status # "COMPLETED" /\ status # "CANCELED"
       THEN IF coordinate[1] = rides[r].dest[1] /\ coordinate[2] = rides[r].dest[2]
               /\ status = "CARRYING"
            THEN "ARRIVED"
            ELSE IF coordinate[1] = rides[r].pickup[1] /\ status = "ENROUTE"
            THEN "PICKUP"
            ELSE ""
       ELSE ""

\* mutant: the pickup transition does not look at the status
CoordinateNewStatus_AnyStatus(r, coordinate) ==
    LET status == getLatestRideStatus(r)
    IN IF status # "COMPLETED" /\ status # "CANCELED"
       THEN IF coordinate[1] = rides[r].dest[1] /\ coordinate[2] = rides[r].dest[2]
               /\ status = "CARRYING"
            THEN "ARRIVED"
            ELSE IF coordinate[1] = rides[r].pickup[1] /\ coordinate[2] = rides[r].pickup[2]
            THEN "PICKUP"
            ELSE ""
       ELSE ""

\* mutant: the destination transition does not look at the status
CoordinateNewStatus_DestAnyStatus(r, coordinate) ==
    LET status == getLatestRideStatus(r)
    IN IF status # "COMPLETED" /\ status # "CANCELED"
       THEN IF coordinate[1] = rides[r].dest[1] /\ coordinate[2] = rides[r].dest[2]
            THEN "ARRIVED"
            ELSE IF coordinate[1] = rides[r].pickup[1] /\ coordinate[2] = rides[r].pickup[2]
                    /\ status = "ENROUTE"
            THEN "PICKUP"
            ELSE ""
       ELSE ""

\* the status chairPostCoordinate moves the ride to ("" when newStatus stays nil)
CoordinateNewStatus(r, coordinate) ==
    LET status == getLatestRideStatus(r)
    IN IF status # "COMPLETED" /\ status # "CANCELED"
       THEN IF coordinate[1] = rides[r].dest[1] /\ coordinate[2] = rides[r].dest[2]
               /\ status = "CARRYING"
            THEN "ARRIVED"
            ELSE IF coordinate[1] = rides[r].pickup[1] /\ coordinate[2] = rides[r].pickup[2]
                    /\ status = "ENROUTE"
            THEN "PICKUP"
            ELSE ""
       ELSE ""

\* POST /api/chair/coordinate
chairPostCoordinate(c, coordinate) ==
    LET r == latestRideCache[c]
        before == IF r # NoRide THEN getLatestRideStatus(r) ELSE ""
        newStatus == IF r # NoRide THEN CoordinateNewStatus(r, coordinate) ELSE ""
    IN /\ locationCache' = updateChairLocationToBadger(locationCache, c, coordinate)
       /\ IF newStatus # ""
          THEN /\ CanPublish(c)
               /\ chairStatusBadger' = updateChairStatusToBadger(chairStatusBadger, c, newStatus, r)
               /\ rideStatusesCache' = [rideStatusesCache EXCEPT ![r] = newStatus]
               /\ chairEventBus' = ChairPublish(chairEventBus, c, newStatus, r)
               /\ lastCall' = Call("coordinate", c, r, coordinate, 200, before, newStatus,
                                   <<Ev(c, newStatus, r)>>, <<Ev(rides[r].user, newStatus, r)>>)
          ELSE /\ lastCall' = Call("coordinate", c, r, coordinate, 200, before, before, <<>>, <<>>)
               /\ UNCHANGED <<chairStatusBadger, rideStatusesCache, chairEventBus>>
       /\ UNCHANGED <<rides, matchingRides, emptyChairs, latestRideCache, chairActive,
                      chairStream, postRidesTx>>
       /\ UNCHANGED moreVars

\* mutant: CARRYING accepted from every status
CarryingAllowed_Always(status) == TRUE

\* case "CARRYING": if status != "PICKUP" { 400 "chair has not arrived yet" }
CarryingAllowed(status) == status = "PICKUP"

\* POST /api/chair/rides/{ride_id}/status
chairPostRideStatus(c, r, reqStatus) ==
    LET before == IF r \in RideIds THEN getLatestRideStatus(r) ELSE ""
        reject(code) ==
            /\ lastCall' = Call("status", c, r, reqStatus, code, before, before, <<>>, <<>>)
            /\ UNCHANGED <<rideStatusesCache, chairStatusBadger, chairEventBus>>
        \* the tail of the handler: store the status, publish on both buses
        storeAndPublish(code, kv) ==
            /\ CanPublish(c)
            /\ chairStatusBadger' = kv
            /\ rideStatusesCache' = [rideStatusesCache EXCEPT ![r] = reqStatus]
            /\ chairEventBus' = ChairPublish(chairEventBus, c, reqStatus, r)
            /\ lastCall' = Call("status", c, r, reqStatus, code, before, reqStatus,
                                <<Ev(c, reqStatus, r)>>, <<Ev(rides[r].user, reqStatus, r)>>)
    IN /\ IF r \notin RideIds THEN reject(404)
          ELSE IF rides[r].chair # c THEN reject(400)
          ELSE IF reqStatus = "ENROUTE"
               THEN storeAndPublish(204, updateChairStatusToBadger(chairStatusBadger, c, "ENROUTE", r))
          ELSE IF reqStatus = "CARRYING"
               THEN IF ~CarryingAllowed(before) THEN reject(400)
                    ELSE storeAndPublish(204, updateChairStatusToBadger(chairStatusBadger, c, "CARRYING", r))
          \* default: writeError(400, "invalid status") without a return
          ELSE storeAndPublish(400, chairStatusBadger)
       /\ UNCHANGED <<rides, matchingRides, emptyChairs, latestRideCache, chairActive,
                      locationCache, chairStream, postRidesTx>>
       /\ UNCHANGED moreVars

\* ChairSubscribe: chairEventBus[event] = append(chairEventBus[event], ch)
ChairSubscribe(bus, c) == [bus EXCEPT ![c] = Append(@, <<>>)]

\* GET /api/chair/notification up to the subscription: snapshot frame,
\* status record, subscribe
chairGetNotificationConnect(c) ==
    /\ ~chairStream[c].on
    /\ LET r == latestRideCache[c]
       IN IF r = NoRide
          THEN /\ lastCall' = Call("notification", c, NoRide, "", 200, "", "", <<>>, <<>>)
               /\ UNCHANGED <<chairStatusBadger, chairEventBus, chairStream>>
          ELSE /\ lastCall' = Call("snapshot", c, r, getLatestRideStatus(r), 200, "", "", <<>>, <<>>)
               /\ chairStatusBadger' = updateChairStatusToBadger(chairStatusBadger, c, "AVAILABLE", r)
               /\ chairEventBus' = ChairSubscribe(chairEventBus, c)
               /\ chairStream' = [chairStream EXCEPT ![c] =
                                     [on |-> TRUE, ride |-> r, idx |-> Len(chairEventBus[c]) + 1,
                                      sent |-> ""]]
    /\ UNCHANGED <<rides, rideStatusesCache, matchingRides, emptyChairs, latestRideCache,
                   chairActive, locationCache, postRidesTx>>
    /\ UNCHANGED moreVars

\* GET /api/chair/notification up to the Flush of the first frame:
\* latestRideCache.Load, getLatestRideStatusWithID, the snapshot frame.  The
\* channel is not subscribed yet (idx 0).
chairGetNotificationSnapshot(c) ==
    /\ ~chairStream[c].on
    /\ LET r == latestRideCache[c]
       IN IF r = NoRide
          THEN /\ lastCall' = Call("notification", c, NoRide, "", 200, "", "", <<>>, <<>>)
               /\ UNCHANGED chairStream
          ELSE /\ lastCall' = Call("snapshot", c, r, getLatestRideStatus(r), 200, "", "", <<>>, <<>>)
               /\ chairStream' = [chairStream EXCEPT ![c] =
                                     [on |-> TRUE, ride |-> r, idx |-> 0,
                                      sent |-> getLatestRideStatus(r)]]
    /\ UNCHANGED <<rides, rideStatusesCache, matchingRides, emptyChairs, latestRideCache,
                   chairActive, chairStatusBadger, chairEventBus, locationCache, postRidesTx>>
    /\ UNCHANGED moreVars

\* the handler after the first frame: updateChairStatusToBadger,
\* ch := make(chan *RideEvent, 100); ChairSubscribe(chair.ID, ch)
chairGetNotificationSubscribe(c) ==
    /\ chairStream[c].on
    /\ chairStream[c].idx = 0
    /\ chairStatusBadger' = updateChairStatusToBadger(chairStatusBadger, c, "AVAILABLE",
                                                      chairStream[c].ride)
    /\ chairEventBus' = ChairSubscribe(chairEventBus, c)
    /\ chairStream' = [chairStream EXCEPT ![c].idx = Len(chairEventBus[c]) + 1]
    /\ UNCHANGED <<rides, rideStatusesCache, matchingRides, emptyChairs, latestRideCache,
                   chairActive, locationCache, postRidesTx, lastCall>>
    /\ UNCHANGED moreVars

\* mutant: the loop returns after the frame of a COMPLETED ride
LoopContinues_UntilCompleted(status) == status # "COMPLETED"

\* `for { select { ... } }`: the loop body has no return or break after a frame
LoopContinues(status) == TRUE

\* GET /api/chair/notification, one iteration of the loop: case event := <-ch
\* (observe: the status of the frame is kept in the stream's record)
StreamLoop(c, observe) ==
    /\ chairStream[c].on
    /\ chairStream[c].idx \in DOMAIN chairEventBus[c]
    /\ LET idx == chairStream[c].idx
           ch == chairEventBus[c][idx]
       IN /\ Len(ch) > 0
          /\ LET event == Head(ch)
                 r == IF event.status = "MATCHED" THEN event.ride ELSE chairStream[c].ride
                 status == getLatestRideStatus(r)
             IN /\ chairEventBus' = [chairEventBus EXCEPT ![c][idx] = Tail(ch)]
                /\ chairStream' = [chairStream EXCEPT ![c].ride = r,
                                                      ![c].sent = IF observe THEN status ELSE @,
                                                      ![c].on = LoopContinues(status)]
                /\ lastCall' = Call("frame", c, r, status, 200, "", "", <<>>, <<>>)
                /\ chairStatusBadger' = updateChairStatusToBadger(chairStatusBadger, c, "AVAILABLE", r)
                /\ IF status = "COMPLETED"
                   THEN /\ Len(emptyChairs) < MaxPool
                        /\ emptyChairs' = Append(emptyChairs, c)
                   ELSE UNCHANGED emptyChairs
    /\ UNCHANGED <<rides, rideStatusesCache, matchingRides, latestRideCache, chairActive,
                   locationCache, postRidesTx>>
    /\ UNCHANGED moreVars

\* the loop of the handler that connected in one step
chairGetNotificationRecv(c) == StreamLoop(c, FALSE)

\* the loop of the handler that connected in two steps
chairGetNotificationFrame(c) == StreamLoop(c, TRUE)

----------------------------------------------------------------------------
(* Event bus, one lock operation and one channel send at a time.  UserSubscribe *)
(* and UserPublish are the same code over userEventBus.                         *)

\* the variables of the handlers, the subscriber lists excepted
handlerVars == <<rides, rideStatusesCache, matchingRides, emptyChairs, latestRideCache,
                 chairActive, chairStatusBadger, locationCache, chairStream, postRidesTx,
                 lastCall, skipCounter, pureVars, fareVars>>

\* ids of the ChairPublish calls made so far
PublishIds == {p.id : p \in chairPublishers} \cup publishReturned

\* a stream's ch := make(chan *RideEvent, 100); ChairSubscribe(key, ch).
\* chairEventBusLock.Lock() waits until no ChairPublish holds the read lock.
ChairSubscribeCall(k) ==
    /\ chairPublishers = {}
    /\ Len(chairEventBus[k]) < MaxSubscribers
    /\ chairEventBus' = ChairSubscribe(chairEventBus, k)
    /\ subscriberDone' = [subscriberDone EXCEPT ![k] = Append(@, FALSE)]
    /\ UNCHANGED <<chairPublishers, publishReturned, handlerVars, locVars, matchingPass, payVars>>

\* ChairPublish(key, message) up to the loop: chairEventBusLock.RLock().
\* The message carries its id and the ids of the publishes that had returned
\* when this one was called.
ChairPublishLock(k) ==
    /\ Cardinality(PublishIds) < MaxPublishes
    /\ chairPublishers' = chairPublishers \cup
           {[id |-> Cardinality(PublishIds) + 1, key |-> k, next |-> 1,
             after |-> publishReturned]}
    /\ UNCHANGED <<chairEventBus, publishReturned, subscriberDone, handlerVars, locVars, matchingPass, payVars>>

\* one iteration of `for _, ch := range chairEventBus[event] { ch <- message }`:
\* the send returns when the channel's buffer has room
ChairPublishSend(p) ==
    /\ p \in chairPublishers
    /\ p.next <= Len(chairEventBus[p.key])
    /\ Len(chairEventBus[p.key][p.next]) < ChanCap
    /\ chairEventBus' = [chairEventBus EXCEPT ![p.key][p.next] =
                            Append(@, [id |-> p.id, after |-> p.after])]
    /\ chairPublishers' = (chairPublishers \ {p}) \cup {[p EXCEPT !.next = @ + 1]}
    /\ UNCHANGED <<publishReturned, subscriberDone, handlerVars, locVars, matchingPass, payVars>>

\* the loop is over: deferred chairEventBusLock.RUnlock(), ChairPublish returns
ChairPublishUnlock(p) ==
    /\ p \in chairPublishers
    /\ p.next > Len(chairEventBus[p.key])
    /\ chairPublishers' = chairPublishers \ {p}
    /\ publishReturned' = publishReturned \cup {p.id}
    /\ UNCHANGED <<chairEventBus, subscriberDone, handlerVars, locVars, matchingPass, payVars>>

\* a stream's loop: case event := <-ch
StreamReceive(k, i) ==
    /\ i \in DOMAIN chairEventBus[k]
    /\ ~subscriberDone[k][i]
    /\ Len(chairEventBus[k][i]) > 0
    /\ chairEventBus' = [chairEventBus EXCEPT ![k][i] = Tail(@)]
    /\ UNCHANGED <<chairPublishers, publishReturned, subscriberDone, handlerVars, locVars, matchingPass, payVars>>

\* a stream's loop: case <-r.Context().Done(): return
StreamCancel(k, i) ==
    /\ i \in DOMAIN chairEventBus[k]
    /\ ~subscriberDone[k][i]
    /\ subscriberDone' = [subscriberDone EXCEPT ![k][i] = TRUE]
    /\ UNCHANGED <<chairEventBus, chairPublishers, publishReturned, handlerVars, locVars, matchingPass, payVars>>

----------------------------------------------------------------------------
(* Payment gateway client, one HTTP request at a time *)

\* what one POST /payments comes back with: 204, another status, or no
\* response at all (http.DefaultClient.Do returns an error)
GatewayResponses == {204, 500, 0}

\* mutant: one more retry
MayRetry_Six(retry) == retry < 6

\* if retry < 5 { retry++; continue }
MayRetry(retry) == retry < 5

\* mutant: the key is made anew for every attempt
AttemptKey_PerAttempt(call) == <<call.key, call.retry>>

\* req.Header.Set("Idempotency-Key", idempotencyKey), the key made once
\* before the loop
AttemptKey(call) == <<call.key, 0>>

\* the error of one attempt
AttemptError(response) ==
    IF response = 0 THEN "failed to request payment gateway" ELSE "unexpected status code"

\* the errors the client can return
PaymentErrors == {AttemptError(response) : response \in GatewayResponses \ {204}}

\* the start of a call: idempotencyKey := ulid.Make().String(); retry := 0
PaymentCallStart ==
    /\ Len(paymentCalls) < MaxPaymentCalls
    /\ ulidCount' = ulidCount + 1
    /\ paymentCalls' = Append(paymentCalls,
           [key |-> ulidCount + 1, retry |-> 0, sent |-> <<>>,
            result |-> "running"])
    /\ UNCHANGED <<evaluationTx, handlerVars, chairEventBus, busVars, locVars, matchingPass>>

\* one turn of the loop: the request is sent and answered
PaymentAttempt(i, response) ==
    /\ i \in DOMAIN paymentCalls
    /\ paymentCalls[i].result = "running"
    /\ LET call == paymentCalls[i]
           sent == Append(call.sent, AttemptKey(call))
       IN paymentCalls' = [paymentCalls EXCEPT ![i] =
              IF response = 204
              THEN [call EXCEPT !.sent = sent, !.result = "ok"]
              ELSE IF MayRetry(call.retry)
              THEN [call EXCEPT !.sent = sent, !.retry = @ + 1]
              ELSE [call EXCEPT !.sent = sent, !.result = AttemptError(response)]]
    /\ UNCHANGED <<ulidCount, evaluationTx, handlerVars, chairEventBus, busVars, locVars,
                   matchingPass>>

----------------------------------------------------------------------------
(* The evaluation handler in two steps, with its payment call *)

\* the status the handler goes by after UPDATE rides got the row lock: the
\* one it read before the UPDATE
StatusUnderLock(r, before) == before

\* POST /api/app/rides/{ride_id}/evaluation up to UPDATE rides: the range
\* check, BEGIN, SELECT rides (no lock), getLatestRideStatus, 400 unless
\* ARRIVED.  The transaction stays open until appPostRideEvaluatationCommit.
appPostRideEvaluatationBegin(r, evaluation) ==
    LET before == IF r \in RideIds THEN getLatestRideStatus(r) ELSE ""
        reject(code) ==
            /\ lastCall' = Call("evaluation", "", r, evaluation, code, before, before, <<>>, <<>>)
            /\ UNCHANGED evaluationTx
    IN /\ IF evaluation < 1 \/ evaluation > 5 THEN reject(400)
          ELSE IF r \notin RideIds THEN reject(404)
          ELSE IF ~EvaluationAllowed(before) THEN reject(400)
          ELSE /\ Len(evaluationTx) + Len(paymentCalls) < MaxEvaluations
               /\ evaluationTx' = Append(evaluationTx,
                      [ride |-> r, evaluation |-> evaluation, before |-> before])
               /\ UNCHANGED lastCall
       /\ UNCHANGED <<rides, rideStatusesCache, matchingRides, emptyChairs, latestRideCache,
                      chairActive, chairStatusBadger, locationCache, chairEventBus, chairStream,
                      postRidesTx, busVars, locVars, matchingPass, paymentCalls, ulidCount,
                      skipCounter, pureVars, fareVars>>

\* the rest of the handler, from UPDATE rides (which waits for the row lock
\* of a transaction that got there first) to the response: INSERT
\* ride_statuses COMPLETED, the payment call with a key of its own, COMMIT,
\* rideStatusesCache.Forget, ChairPublish and UserPublish of COMPLETED
appPostRideEvaluatationCommit(i, payment) ==
    /\ i \in DOMAIN evaluationTx
    /\ LET t == evaluationTx[i]
           r == t.ride
           call == [key |-> ulidCount + 1, retry |-> 0, sent |-> <<>>, result |-> payment]
       IN IF ~EvaluationAllowed(StatusUnderLock(r, t.before))
          THEN /\ lastCall' = Call("evaluation", "", r, t.evaluation, 400, t.before,
                                   getLatestRideStatus(r), <<>>, <<>>)
               /\ UNCHANGED <<rides, rideStatusesCache, chairEventBus, paymentCalls, ulidCount>>
          ELSE /\ ulidCount' = ulidCount + 1
               /\ paymentCalls' = Append(paymentCalls,
                                         [call EXCEPT !.sent = <<AttemptKey(call)>>])
               /\ IF payment # "ok"
                  THEN /\ lastCall' = Call("evaluation", "", r, t.evaluation,
                                           PaymentFailureStatus(payment), t.before,
                                           getLatestRideStatus(r), <<>>, <<>>)
                       /\ UNCHANGED <<rides, rideStatusesCache, chairEventBus>>
                  ELSE /\ CanPublish(rides[r].chair)
                       /\ rides' = [rides EXCEPT ![r].evaluation = t.evaluation]
                       /\ rideStatusesCache' = [rideStatusesCache EXCEPT ![r] = "COMPLETED"]
                       /\ chairEventBus' = ChairPublish(chairEventBus, rides[r].chair, "COMPLETED", r)
                       /\ lastCall' = Call("evaluation", rides[r].user, r, t.evaluation, 200,
                                           t.before, "COMPLETED",
                                           <<Ev(rides[r].chair, "COMPLETED", r)>>,
                                           <<Ev(rides[r].user, "COMPLETED", r)>>)
    /\ evaluationTx' = [j \in 1..(Len(evaluationTx) - 1) |->
                           IF j < i THEN evaluationTx[j] ELSE evaluationTx[j + 1]]
    /\ UNCHANGED <<matchingRides, emptyChairs, latestRideCache, chairActive, chairStatusBadger,
                   locationCache, chairStream, postRidesTx, busVars, locVars, matchingPass,
                   skipCounter, pureVars, fareVars>>

----------------------------------------------------------------------------
(* Location store, one transaction step at a time.  In this component       *)
(* locationCache holds the whole chairLocation record, as the code's map    *)
(* does; the handlers above keep its last coordinate only.                  *)

\* everything but the location store
nonLocationVars == <<rides, rideStatusesCache, matchingRides, emptyChairs, latestRideCache,
                     chairActive, chairStatusBadger, chairEventBus, chairStream,
                     postRidesTx, lastCall, busVars, matchingPass, payVars, skipCounter, pureVars, fareVars>>

\* mutant: an absent record is read as the zero record at the origin
NextLocation_FromOrigin(location, coordinate) ==
    LET prior == IF location = NoLocation
                 THEN [TotalDistance |-> 0, LastLatitude |-> 0, LastLongitude |-> 0]
                 ELSE location
    IN [TotalDistance |-> prior.TotalDistance
                          + distance(prior.LastLatitude, prior.LastLongitude,
                                     coordinate[1], coordinate[2]),
        LastLatitude |-> coordinate[1],
        LastLongitude |-> coordinate[2]]

\* the record the closure of updateChairLocationToBadger computes from the
\* record it read (TotalDistanceUpdatedAt left out)
NextLocation(location, coordinate) ==
    IF location = NoLocation
    THEN [TotalDistance |-> 0, LastLatitude |-> coordinate[1], LastLongitude |-> coordinate[2]]
    ELSE [TotalDistance |-> location.TotalDistance
                            + distance(location.LastLatitude, location.LastLongitude,
                                       coordinate[1], coordinate[2]),
          LastLatitude |-> coordinate[1],
          LastLongitude |-> coordinate[2]]

\* updateChairLocationToBadger up to the commit: badgerDB.Update opens a
\* transaction and runs the closure: txn.Get, the new record, txn.Set (kept in
\* the transaction) and locationCache.Store.
LocationUpdateRun(c, coordinate) ==
    /\ Cardinality(locationTxns) < MaxPings
    /\ LET location == NextLocation(locationKV[c], coordinate)
       IN /\ locationTxns' = locationTxns \cup
                 {[id |-> Cardinality(locationTxns) + 1, chair |-> c,
                   coordinate |-> coordinate, readVersion |-> Len(commitLog[c]),
                   location |-> location, result |-> "running"]}
          /\ locationCache' = [locationCache EXCEPT ![c] = location]
    /\ UNCHANGED <<locationKV, commitLog, nonLocationVars>>

\* the commit of badgerDB.Update: badger.ErrConflict when the key the
\* transaction read was committed by another transaction since; the record
\* is written otherwise
LocationUpdateCommit(t) ==
    /\ t \in locationTxns
    /\ t.result = "running"
    /\ IF Len(commitLog[t.chair]) # t.readVersion
       THEN /\ locationTxns' = (locationTxns \ {t}) \cup {[t EXCEPT !.result = "conflict"]}
            /\ UNCHANGED <<locationKV, commitLog>>
       ELSE /\ locationTxns' = (locationTxns \ {t}) \cup {[t EXCEPT !.result = "ok"]}
            /\ locationKV' = [locationKV EXCEPT ![t.chair] = t.location]
            /\ commitLog' = [commitLog EXCEPT ![t.chair] = Append(@, t.coordinate)]
    /\ UNCHANGED <<locationCache, nonLocationVars>>

\* getChairLocationFromBadger: the cached record, else the KV record, which
\* is then cached
getChairLocationFromBadger(c) ==
    /\ locationCache[c] = NoLocation
    /\ locationKV[c] # NoLocation
    /\ locationCache' = [locationCache EXCEPT ![c] = locationKV[c]]
    /\ UNCHANGED <<locationKV, locationTxns, commitLog, nonLocationVars>>

----------------------------------------------------------------------------
(* Dispatcher *)

manhattanDistance(x1, y1, x2, y2) ==
    LET dx == IF x1 - x2 < 0 THEN -(x1 - x2) ELSE x1 - x2
        dy == IF y1 - y2 < 0 THEN -(y1 - y2) ELSE y1 - y2
    IN dx + dy

\* common multiple of the chair speeds, to keep pd = distance / speed integral
SpeedScale == 6

\* loss := math.Pow(float64(age)/5000, 4); if age > 22000 { loss += 100000 }
\* (the ages of the model are multiples of 5000, so the power is integral)
Loss(age) == (age \div 5000) ^ 4 + (IF age > 22000 THEN 100000 ELSE 0)

\* score := dd - 100*pd + 100000*loss, kept as <<loss, SpeedScale * (dd - 100*pd)>>:
\* loss is integral and |dd - 100*pd| < 100000 on the grid of the model, so
\* the scores compare as these pairs compare lexicographically.
Score(r, ch, age) ==
    LET pdScaled == manhattanDistance(rides[r].pickup[1], rides[r].pickup[2],
                                      locationCache[ch][1], locationCache[ch][2])
                    * (SpeedScale \div chairModelSpeedCache[ch])
        dd == manhattanDistance(rides[r].pickup[1], rides[r].pickup[2],
                                rides[r].dest[1], rides[r].dest[2])
    IN <<Loss(age), SpeedScale * dd - 100 * pdScaled>>

ScoreLess(a, b) == a[1] < b[1] \/ (a[1] = b[1] /\ a[2] < b[2])

\* the candidate pairs: every drained ride with every drained chair whose
\* location is known
Matches(ridesD, chairSet, ages) ==
    {[ride |-> r, ch |-> c, score |-> Score(r, c, ages[r])] :
        r \in SeqToSet(ridesD), c \in {x \in chairSet : locationCache[x] # NoLocation}}

\* slices.SortFunc(matches, cmp.Compare(b.score, a.score)): every ordering
\* with non-increasing score (the sort is not stable and the chairs come out
\* of a map in any order)
RECURSIVE SortedSeqs(_)
SortedSeqs(M) ==
    IF M = {} THEN {<<>>}
    ELSE LET top == {m \in M : \A n \in M : ~ScoreLess(m.score, n.score)}
         IN UNION {{<<m>> \o s : s \in SortedSeqs(M \ {m})} : m \in top}

\* mutant: the greedy loop never sees a chair as taken
MatchedChair_Never(assigned, ch) == FALSE

\* _, ok := matchedChairIDMap[m.ch.ID]
MatchedChair(assigned, ch) == \E i \in DOMAIN assigned : assigned[i].ch = ch

\* mutant: the greedy loop never sees a ride as taken
MatchedRide_Never(assigned, ride) == FALSE

\* _, ok := matchedRideIDMap[m.ride.ID]
MatchedRide(assigned, ride) == \E i \in DOMAIN assigned : assigned[i].ride = ride

\* the greedy loop over the sorted pairs; the dbFailAt-th UPDATE rides fails
\* (0: none fails) and ends the pass
RECURSIVE Greedy(_, _, _)
Greedy(ms, assigned, dbFailAt) ==
    IF ms = <<>> THEN [assigned |-> assigned, failed |-> FALSE]
    ELSE LET m == Head(ms)
         IN IF MatchedChair(assigned, m.ch) THEN Greedy(Tail(ms), assigned, dbFailAt)
            ELSE IF MatchedRide(assigned, m.ride) THEN Greedy(Tail(ms), assigned, dbFailAt)
            ELSE IF Len(assigned) + 1 = dbFailAt THEN [assigned |-> assigned, failed |-> TRUE]
            ELSE Greedy(Tail(ms), Append(assigned, m), dbFailAt)

\* chairMap[ch.ID] = ch for every drained chair: the distinct chairs
ChairMap(chairs) == SeqToSet(chairs)

RECURSIVE PublishAll(_, _)
PublishAll(bus, assigned) ==
    IF assigned = <<>> THEN bus
    ELSE PublishAll(ChairPublish(bus, Head(assigned).ch, "MATCHED", Head(assigned).ride),
                    Tail(assigned))

\* One dispatcher pass: what internalGetMatching does to the state of the handlers.
internalGetMatchingPass(ages, locFail, dbFailAt) ==
    LET ridesD == matchingRides
        chairsD == emptyChairs
        chairSet == ChairMap(chairsD)
        pass(ending, rs, cs, as) ==
            [ending |-> ending, rides |-> rs, chairs |-> cs,
             matches |-> IF ending \in {"store error", "end"}
                         THEN Matches(ridesD, chairSet, ages) ELSE {},
             assigned |-> as]
        done(p, cpub, upub) ==
            lastCall' = [Call("matching", "", NoRide, "", 0, "", "", cpub, upub) EXCEPT !.pass = p]
        nothingAssigned(p) ==
            /\ done(p, <<>>, <<>>)
            /\ UNCHANGED <<rides, latestRideCache, chairEventBus>>
    IN /\ IF Len(ridesD) = 0
          THEN /\ nothingAssigned(pass("no rides", <<>>, <<>>, <<>>))
               /\ UNCHANGED <<matchingRides, emptyChairs>>
          ELSE IF chairSet = {}
          THEN /\ nothingAssigned(pass("no chairs", ridesD, chairsD, <<>>))
               /\ matchingRides' = <<>>
               /\ emptyChairs' = <<>>
          ELSE IF locFail
          THEN /\ nothingAssigned(pass("location error", ridesD, chairsD, <<>>))
               /\ matchingRides' = <<>>
               /\ emptyChairs' = <<>>
          ELSE \E res \in {Greedy(ms, <<>>, dbFailAt) :
                              ms \in SortedSeqs(Matches(ridesD, chairSet, ages))} :
               LET as == res.assigned
               IN /\ \A i \in DOMAIN as : CanPublish(as[i].ch)
                  /\ rides' = [r \in DOMAIN rides |->
                                  IF MatchedRide(as, r)
                                  THEN [rides[r] EXCEPT !.chair =
                                           as[CHOOSE i \in DOMAIN as : as[i].ride = r].ch]
                                  ELSE rides[r]]
                  /\ latestRideCache' = [c \in Chairs |->
                                  IF MatchedChair(as, c)
                                  THEN as[CHOOSE i \in DOMAIN as : as[i].ch = c].ride
                                  ELSE latestRideCache[c]]
                  /\ chairEventBus' = PublishAll(chairEventBus, as)
                  /\ done(pass(IF res.failed THEN "store error" ELSE "end", ridesD, chairsD, as),
                          [i \in DOMAIN as |-> Ev(as[i].ch, "MATCHED", as[i].ride)],
                          [i \in DOMAIN as |-> Ev(rides[as[i].ride].user, "MATCHED", as[i].ride)])
                  /\ IF res.failed
                     THEN /\ matchingRides' = <<>>
                          /\ emptyChairs' = <<>>
                     ELSE /\ matchingRides' = LET unmatched(r) == ~MatchedRide(as, r)
                                              IN SelectSeq(ridesD, unmatched)
                          /\ \E back \in Perms({c \in chairSet : ~MatchedChair(as, c)}) :
                                 emptyChairs' = back
       /\ UNCHANGED <<rideStatusesCache, chairActive, chairStatusBadger, locationCache,
                      chairStream, postRidesTx>>

\* One dispatcher pass (internalGetMatching), whenever it is called.
internalGetMatching(ages, locFail, dbFailAt) ==
    /\ internalGetMatchingPass(ages, locFail, dbFailAt)
    /\ UNCHANGED moreVars

\* len(emptyChairs) > 5
PoolThreshold == 5

\* skipCounter > 20
SkipLimit == 20

\* isChairExist: len(emptyChairs) > 5 || skipCounter > 20
isChairExist == Len(emptyChairs) > PoolThreshold \/ skipCounter > SkipLimit

\* One tick of the ticker goroutine started by init(): a dispatcher pass when
\* the pool is large enough or enough ticks were skipped, else one more skip.
ticker(ages, locFail, dbFailAt) ==
    IF isChairExist
    THEN /\ skipCounter' = 0
         /\ internalGetMatchingPass(ages, locFail, dbFailAt)
         /\ UNCHANGED <<busVars, locVars, matchingPass, payVars, pureVars, fareVars>>
    ELSE /\ skipCounter' = skipCounter + 1
         /\ UNCHANGED <<rides, rideStatusesCache, matchingRides, emptyChairs, latestRideCache,
                        chairActive, chairStatusBadger, locationCache, chairEventBus,
                        chairStream, postRidesTx, lastCall>>
         /\ UNCHANGED <<busVars, locVars, matchingPass, payVars, pureVars, fareVars>>

----------------------------------------------------------------------------
(* The dispatcher pass, one statement of its assignment loop at a time *)

\* the sorted pairs from the first one the loop does not skip
RECURSIVE SkipMatched(_, _)
SkipMatched(ms, assigned) ==
    IF ms = <<>> THEN <<>>
    ELSE IF MatchedChair(assigned, Head(ms).ch) \/ MatchedRide(assigned, Head(ms).ride)
         THEN SkipMatched(Tail(ms), assigned)
         ELSE ms

\* mutant: the events are published before the caches are written
NextStep_PublishFirst(step) ==
    IF step = "update" THEN "publish"
    ELSE IF step = "publish" THEN "cache"
    ELSE "next"

\* the order of the statements of one assignment: UPDATE rides; ride.ChairID,
\* rideCache.Store and latestRideCache.Store; ChairPublish and UserPublish
NextStep(step) ==
    IF step = "update" THEN "cache"
    ELSE IF step = "cache" THEN "publish"
    ELSE "next"

\* the pass after the statement `step` of the pair at hand
Advance(pass, step) ==
    IF NextStep(step) = "next"
    THEN [pass EXCEPT !.phase = "update",
                      !.assigned = Append(@, Head(pass.ms)),
                      !.ms = SkipMatched(Tail(pass.ms), Append(pass.assigned, Head(pass.ms)))]
    ELSE [pass EXCEPT !.phase = NextStep(step)]

\* the start of a pass that has rides and chairs: both queues are drained,
\* the pairs are scored and sorted
MatchingDrain(ages) ==
    /\ matchingPass.phase = "idle"
    /\ Len(matchingRides) > 0
    /\ ChairMap(emptyChairs) # {}
    /\ \E ms \in SortedSeqs(Matches(matchingRides, ChairMap(emptyChairs), ages)) :
           matchingPass' = [phase |-> "update", ms |-> ms, assigned |-> <<>>,
                            rides |-> matchingRides, chairs |-> ChairMap(emptyChairs)]
    /\ matchingRides' = <<>>
    /\ emptyChairs' = <<>>
    /\ lastCall' = Call("matching drain", "", NoRide, "", 0, "", "", <<>>, <<>>)
    /\ UNCHANGED <<rides, rideStatusesCache, latestRideCache, chairActive, chairStatusBadger,
                   locationCache, chairEventBus, chairStream, postRidesTx, busVars, locVars, payVars, skipCounter, pureVars, fareVars>>

\* UPDATE rides SET chair_id for the pair at hand; an error ends the pass
MatchingUpdateRide(ok) ==
    /\ matchingPass.phase = "update"
    /\ matchingPass.ms # <<>>
    /\ LET m == Head(matchingPass.ms)
       IN IF ok
          THEN /\ rides' = IF RideInStore(rides, m.ride)
                         THEN [rides EXCEPT ![m.ride].chair = m.ch]
                         ELSE rides  \* UPDATE ... WHERE id = ? changes no row
               /\ matchingPass' = Advance(matchingPass, "update")
               /\ lastCall' = Call("matching update", m.ch, m.ride, "", 0, "", "", <<>>, <<>>)
          ELSE /\ matchingPass' = IdlePass
               /\ lastCall' = Call("matching update", m.ch, m.ride, "", 500, "", "", <<>>, <<>>)
               /\ UNCHANGED rides
    /\ UNCHANGED <<rideStatusesCache, matchingRides, emptyChairs, latestRideCache, chairActive,
                   chairStatusBadger, locationCache, chairEventBus, chairStream, postRidesTx,
                   busVars, locVars, payVars, skipCounter, pureVars, fareVars>>

\* m.ride.ChairID, rideCache.Store and latestRideCache.Store
MatchingStoreCaches ==
    /\ matchingPass.phase = "cache"
    /\ LET m == Head(matchingPass.ms)
       IN /\ latestRideCache' = [latestRideCache EXCEPT ![m.ch] = m.ride]
          /\ lastCall' = Call("matching store", m.ch, m.ride, "", 0, "", "", <<>>, <<>>)
    /\ matchingPass' = Advance(matchingPass, "cache")
    /\ UNCHANGED <<rides, rideStatusesCache, matchingRides, emptyChairs, chairActive,
                   chairStatusBadger, locationCache, chairEventBus, chairStream, postRidesTx,
                   busVars, locVars, payVars, skipCounter, pureVars, fareVars>>

\* ChairPublish and UserPublish of MATCHED
MatchingPublish ==
    /\ matchingPass.phase = "publish"
    /\ LET m == Head(matchingPass.ms)
       IN /\ CanPublish(m.ch)
          /\ chairEventBus' = ChairPublish(chairEventBus, m.ch, "MATCHED", m.ride)
          /\ lastCall' = Call("matching publish", m.ch, m.ride, "", 0, "", "",
                              <<Ev(m.ch, "MATCHED", m.ride)>>,
                              <<Ev(rides[m.ride].user, "MATCHED", m.ride)>>)
    /\ matchingPass' = Advance(matchingPass, "publish")
    /\ UNCHANGED <<rides, rideStatusesCache, matchingRides, emptyChairs, latestRideCache,
                   chairActive, chairStatusBadger, locationCache, chairStream, postRidesTx,
                   busVars, locVars, payVars, skipCounter, pureVars, fareVars>>

\* the end of the loop: the rides and chairs left over go back to the queues
MatchingEnd ==
    /\ matchingPass.phase = "update"
    /\ matchingPass.ms = <<>>
    /\ matchingRides' = matchingRides \o
           LET unmatched(r) == ~MatchedRide(matchingPass.assigned, r)
           IN SelectSeq(matchingPass.rides, unmatched)
    /\ \E back \in Perms({c \in matchingPass.chairs : ~MatchedChair(matchingPass.assigned, c)}) :
           emptyChairs' = emptyChairs \o back
    /\ matchingPass' = IdlePass
    /\ lastCall' = Call("matching end", "", NoRide, "", 0, "", "", <<>>, <<>>)
    /\ UNCHANGED <<rides, rideStatusesCache, latestRideCache, chairActive, chairStatusBadger,
                   locationCache, chairEventBus, chairStream, postRidesTx, busVars, locVars, payVars, skipCounter, pureVars, fareVars>>

----------------------------------------------------------------------------
(* POST /api/initialize *)

\* initEmptyChairs: the active chairs none of whose rides is uncompleted in
\* the relational store
IdleChairsInStore(active, rs, statuses) ==
    {c \in Chairs : active[c] /\ \A r \in DOMAIN rs :
                        RideInStore(rs, r) /\ rs[r].chair = c => statuses[r] = "COMPLETED"}

\* the pending-ride queue rebuilt from the relational store: the rides in
\* phase MATCHING, oldest first
MatchingRidesInStore(rs, statuses) ==
    SelectSeq([r \in DOMAIN rs |-> r],
              LAMBDA r : RideInStore(rs, r) /\ rs[r].chair = NoChair /\ statuses[r] = "MATCHING")

\* the caches rebuilt from the relational store (initRideStatusesCache,
\* initRideCache and the purge of the isucache maps)
RebuildCaches(rs, statuses) ==
    /\ rideStatusesCache' = statuses
    /\ matchingRides' = MatchingRidesInStore(rs, statuses)
    /\ latestRideCache' = [c \in Chairs |-> NoRide]
    /\ locationCache' = [c \in Chairs |-> NoLocation]

\* POST /api/initialize: ../sql/init.sh puts the relational store back to its
\* initial data (open transactions are gone with it), initBadger rebuilds the
\* KV store from it, initEventBus makes new bus maps, initEmptyChairs reads
\* the pool from the store, and the caches are rebuilt.  The handler takes
\* emptyChairsLocker only inside initEmptyChairs; a dispatcher pass that has
\* drained the queues keeps its rides and chairs.
postInitialize ==
    LET rs == [r \in DOMAIN rides |-> DeletedRide(rides[r])]
        statuses == [r \in DOMAIN rides |-> ""]
        active == [c \in Chairs |-> FALSE]
    IN /\ rides' = rs
       /\ chairActive' = active
       /\ coupons' = CouponSeed
       /\ postRidesTx' = <<>>
       /\ chairStatusBadger' = [c \in Chairs |-> NoStatus]
       /\ locationKV' = SeedLocation
       /\ chairEventBus' = [c \in Chairs |-> <<>>]
       /\ emptyChairs' \in Perms(IdleChairsInStore(active, rs, statuses))
       /\ RebuildCaches(rs, statuses)
       /\ lastCall' = Call("initialize", "", NoRide, "", 200, "", "", <<>>, <<>>)
       /\ UNCHANGED <<chairStream, busVars, locationTxns, commitLog, matchingPass, payVars,
                      skipCounter, pureVars, lastFare>>

----------------------------------------------------------------------------
(* The assignment solver of the earlier dispatcher *)

\* var InfinityFloat = math.Inf(1): above every cost, label and slack of the model
InfinityFloat == 1000000

\* the indices of a slice of length n
Idx(n) == 0..(n - 1)

max(a, b) == IF a > b THEN a ELSE b

\* the least element of a non-empty set of numbers
Least(S) == CHOOSE v \in S : \A w \in S : v <= w

\* minInRow: the least value of row x
minInRow(h, x) == Least({h.matrix[x][y] : y \in Idx(h.n)} \cup {InfinityFloat})

\* minInCol: the least value of column y
minInCol(h, y) == Least({h.matrix[x][y] : x \in Idx(h.n)} \cup {InfinityFloat})

\* isMatched: h.yx[y] != -1
isMatched(h, y) == h.yx[y] # -1

\* the initial matching of NewHungarian from row x on: the first column of
\* the row that is tight and has yx[y] == -1 is given to the row
RECURSIVE InitialMatching(_, _)
InitialMatching(h, x) ==
    IF x >= h.n THEN h
    ELSE LET ys == {y \in Idx(h.n) : /\ h.matrix[x][y] = h.labelX[x] + h.labelY[y]
                                     /\ h.yx[y] = -1}
         IN IF ys = {} THEN InitialMatching(h, x + 1)
            ELSE InitialMatching([h EXCEPT !.xy[x] = Least(ys), !.yx[Least(ys)] = x], x + 1)

\* NewHungarian: the table padded with zeros to a square matrix, the labels,
\* the initial matching, and -1 for the rows left unmatched. make([]int, n)
\* fills xy and yx with zeros. The record also holds the locals of Execute
\* (queue, found, x, y).
NewHungarian(costMatrix) ==
    LET rows == Len(costMatrix)
        cols == Len(costMatrix[1])
        n == max(rows, cols)
        zeros == [i \in Idx(n) |-> 0]
        h0 == [n |-> n,
               matrix |-> [i \in Idx(n) |-> [j \in Idx(n) |->
                              IF i < rows /\ j < cols THEN costMatrix[i + 1][j + 1] ELSE 0]],
               labelX |-> zeros, labelY |-> zeros, xy |-> zeros, yx |-> zeros,
               S |-> [i \in Idx(n) |-> FALSE], T |-> [i \in Idx(n) |-> FALSE],
               Slack |-> zeros, Slackx |-> zeros, prev |-> zeros,
               queue |-> <<>>, found |-> FALSE, x |-> 0, y |-> 0]
        h1 == [h0 EXCEPT !.labelX = [x \in Idx(n) |-> minInRow(h0, x)]]
        h2 == [h1 EXCEPT !.labelY = [y \in Idx(n) |-> minInCol(h1, y)]]
        h3 == InitialMatching(h2, 0)
    IN [h3 EXCEPT !.xy = [i \in Idx(n) |->
                             IF h3.xy[i] = 0 /\ ~isMatched(h3, i) THEN -1 ELSE h3.xy[i]]]

\* the slack update of row x: Slack[y] and Slackx[y] of every column whose
\* labelX[x]+labelY[y]-matrix[x][y] is below its slack
UpdateSlack(h, x) ==
    LET reduced(y) == h.labelX[x] + h.labelY[y] - h.matrix[x][y]
    IN [h EXCEPT !.Slack = [y \in Idx(h.n) |->
                               IF reduced(y) < h.Slack[y] THEN reduced(y) ELSE h.Slack[y]],
                 !.Slackx = [y \in Idx(h.n) |->
                               IF reduced(y) < h.Slack[y] THEN x ELSE h.Slackx[y]]]

\* column y joins the tree: T[y], its row queued and put in S, the row's slacks
JoinTree(h, y) ==
    UpdateSlack([h EXCEPT !.T[y] = TRUE, !.queue = Append(@, h.yx[y]), !.S[h.yx[y]] = TRUE],
                h.yx[y])

\* the loop over the columns of row x in the breadth-first search, from column y on
RECURSIVE ScanRow(_, _, _)
ScanRow(h, x, y) ==
    IF y >= h.n THEN [h EXCEPT !.y = y]
    ELSE IF h.matrix[x][y] = h.labelX[x] + h.labelY[y] /\ ~h.T[y]
    THEN IF h.yx[y] = -1
         THEN [h EXCEPT !.found = TRUE, !.prev[x] = y, !.y = y]
         ELSE ScanRow(JoinTree(h, y), x, y + 1)
    ELSE ScanRow(h, x, y + 1)

\* for len(queue) > 0 && !found
RECURSIVE Search(_)
Search(h) ==
    IF h.queue = <<>> \/ h.found THEN h
    ELSE Search(ScanRow([h EXCEPT !.x = Head(h.queue), !.queue = Tail(h.queue)],
                        Head(h.queue), 0))

\* the matching updated along the path found by the search: x = prev[yx[prevY]]
RECURSIVE AugmentByPrev(_, _, _)
AugmentByPrev(h, x, y) ==
    LET prevY == h.xy[x]
        h1 == [h EXCEPT !.xy[x] = y, !.yx[y] = x]
    IN IF prevY = -1 THEN h1 ELSE AugmentByPrev(h1, h1.prev[h1.yx[prevY]], prevY)

\* the matching updated along the path found after the labels moved: x = Slackx[prevY]
RECURSIVE AugmentBySlackx(_, _, _)
AugmentBySlackx(h, x, y) ==
    LET prevY == h.xy[x]
        h1 == [h EXCEPT !.xy[x] = y, !.yx[y] = x]
    IN IF prevY = -1 THEN h1 ELSE AugmentBySlackx(h1, h1.Slackx[prevY], prevY)

\* the labels moved by delta, the least slack of the columns outside the tree
AdjustLabels(h) ==
    LET delta == Least({h.Slack[j] : j \in {k \in Idx(h.n) : ~h.T[k]}} \cup {InfinityFloat})
    IN [h EXCEPT !.labelX = [i \in Idx(h.n) |-> IF h.S[i] THEN h.labelX[i] - delta
                                                ELSE h.labelX[i]],
                 !.labelY = [j \in Idx(h.n) |-> IF h.T[j] THEN h.labelY[j] + delta
                                                ELSE h.labelY[j]],
                 !.Slack = [j \in Idx(h.n) |-> IF h.T[j] THEN h.Slack[j]
                                               ELSE h.Slack[j] - delta]]

\* the second search, over the columns with slack 0 outside the tree, from column j on
RECURSIVE SearchAgain(_, _)
SearchAgain(h, j) ==
    IF j >= h.n THEN h
    ELSE IF ~h.T[j] /\ h.Slack[j] = 0
    THEN IF h.yx[j] = -1
         THEN [h EXCEPT !.x = h.Slackx[j], !.y = j, !.found = TRUE]
         ELSE SearchAgain(JoinTree(h, j), j + 1)
    ELSE SearchAgain(h, j + 1)

\* one round of Execute for the unmatched row root
ExecuteRound(h, root) ==
    LET start == UpdateSlack([h EXCEPT !.S = [i \in Idx(h.n) |-> i = root],
                                       !.T = [i \in Idx(h.n) |-> FALSE],
                                       !.Slack = [j \in Idx(h.n) |-> InfinityFloat],
                                       !.prev = [i \in Idx(h.n) |-> -1],
                                       !.queue = <<root>>, !.found = FALSE,
                                       !.x = 0, !.y = 0],
                             root)
        searched == Search(start)
        again == SearchAgain(AdjustLabels(searched), 0)
    IN IF searched.found
       THEN AugmentByPrev(searched, searched.prev[searched.x], searched.y)
       ELSE IF again.found
       THEN AugmentBySlackx(again, again.Slackx[again.y], again.y)
       ELSE again

\* Execute: rounds until no row has xy[x] == -1
RECURSIVE Execute(_)
Execute(h) ==
    LET unmatched == {x \in Idx(h.n) : h.xy[x] = -1}
    IN IF unmatched = {} THEN h ELSE Execute(ExecuteRound(h, Least(unmatched)))

\* the sum of the costs of the assigned pairs, from row x on
RECURSIVE TotalCost(_, _, _)
TotalCost(costMatrix, xy, x) ==
    IF x >= Len(costMatrix) THEN 0
    ELSE (IF xy[x] < Len(costMatrix[1]) THEN costMatrix[x + 1][xy[x] + 1] ELSE 0)
         + TotalCost(costMatrix, xy, x + 1)

\* HungarianAlgorithm: the total cost and, per row of the table, the column
\* matcher.xy gives it when that column is below cols, else -1
HungarianAlgorithm(costMatrix) ==
    LET matcher == Execute(NewHungarian(costMatrix))
        rows == Len(costMatrix)
        cols == Len(costMatrix[1])
    IN [totalCost |-> TotalCost(costMatrix, matcher.xy, 0),
        assignment |-> [x \in Idx(rows) |->
                           IF matcher.xy[x] < cols THEN matcher.xy[x] ELSE -1]]

\* _, assignmentResults := HungarianAlgorithm(table)
HungarianAlgorithmCall(table) ==
    /\ assignmentResults' = [table |-> table,
                             totalCost |-> HungarianAlgorithm(table).totalCost,
                             assignment |-> HungarianAlgorithm(table).assignment]
    /\ UNCHANGED <<rides, rideStatusesCache, matchingRides, emptyChairs, latestRideCache,
                   chairActive, chairStatusBadger, locationCache, chairEventBus,
                   chairStream, postRidesTx, lastCall>>
    /\ UNCHANGED <<busVars, locVars, matchingPass, payVars, skipCounter, locationRecord,
                   fareVars>>

----------------------------------------------------------------------------
(* The location record of the KV store *)

\* binary.LittleEndian.PutUint64(b, uint64(v)): the k low bytes of the two's
\* complement of v, least significant byte first (% and \div round down, so
\* a negative v gives its sign-extended bytes)
RECURSIVE PutUint64(_, _)
PutUint64(v, k) ==
    IF k = 0 THEN <<>> ELSE <<v % 256>> \o PutUint64(v \div 256, k - 1)

\* int(binary.LittleEndian.Uint64(b)): the bytes of b, least significant
\* first, read as one two's complement number (the top byte carries the sign)
RECURSIVE Uint64AsInt(_)
Uint64AsInt(b) ==
    IF Len(b) = 1 THEN (IF b[1] >= 128 THEN b[1] - 256 ELSE b[1])
    ELSE b[1] + 256 * Uint64AsInt(Tail(b))

\* mutant: longitude written before latitude
encodeChairLocation_LongitudeFirst(location) ==
    PutUint64(location.TotalDistance, 8) \o PutUint64(location.LastLongitude, 8)
        \o PutUint64(location.LastLatitude, 8) \o PutUint64(location.TotalDistanceUpdatedAt, 8)

\* encodeChairLocation: 32 bytes, four 64-bit little-endian fields
encodeChairLocation(location) ==
    PutUint64(location.TotalDistance, 8) \o PutUint64(location.LastLatitude, 8)
        \o PutUint64(location.LastLongitude, 8) \o PutUint64(location.TotalDistanceUpdatedAt, 8)

\* decodeChairLocation
decodeChairLocation(data) ==
    [TotalDistance |-> Uint64AsInt(SubSeq(data, 1, 8)),
     LastLatitude |-> Uint64AsInt(SubSeq(data, 9, 16)),
     LastLongitude |-> Uint64AsInt(SubSeq(data, 17, 24)),
     TotalDistanceUpdatedAt |-> Uint64AsInt(SubSeq(data, 25, 32))]

\* everything but the state of the pure functions
pureRest == <<rides, rideStatusesCache, matchingRides, emptyChairs, latestRideCache,
              chairActive, chairStatusBadger, locationCache, chairEventBus,
              chairStream, postRidesTx, lastCall, busVars, locVars, matchingPass, payVars,
              skipCounter, fareVars>>

\* txn.Set(bytesChairID, encodeChairLocation(&location)): a location aggregate
\* is written as its record
LocationEncode(location) ==
    /\ locationRecord' = [location |-> location, data |-> encodeChairLocation(location),
                          decoded |-> <<>>]
    /\ UNCHANGED <<assignmentResults, pureRest>>

\* item.Value(... decodeChairLocation(val) ...): the record is read back
LocationDecode ==
    /\ locationRecord.data # <<>>
    /\ locationRecord.decoded = <<>>
    /\ locationRecord' = [locationRecord EXCEPT !.decoded = decodeChairLocation(locationRecord.data)]
    /\ UNCHANGED <<assignmentResults, pureRest>>

----------------------------------------------------------------------------
(* Specification *)

Evaluations == {0, 5}

\* what the payment call of an evaluation request ends with
PaymentResults == {"ok"} \cup PaymentErrors
DbFailAts == 0..2

\* the route of the life-cycle specifications
RideRoutes == {[pickup |-> <<0, 0>>, dest |-> <<1, 1>>]}

\* The ride life cycle of one user and one chair: every handler that changes
\* a ride's status and the dispatcher pass (no injected failure).
NextRide ==
    \/ \E route \in RideRoutes : appPostRidesBegin("u1", route, MaxRides)
    \/ \E i \in 1..MaxRides : appPostRidesCommit(i)
    \/ \E r \in 1..MaxRides, e \in Evaluations, payment \in PaymentResults :
           appPostRideEvaluatation(r, e, payment)
    \/ \E a \in BOOLEAN : chairPostActivity("c1", a)
    \/ \E xy \in Coords : chairPostCoordinate("c1", xy)
    \/ \E r \in 1..MaxRides, st \in StatusInputs : chairPostRideStatus("c1", r, st)
    \/ internalGetMatching([r \in SeqToSet(matchingRides) |-> 0], FALSE, 0)

Spec == Init /\ [][NextRide]_vars

\* Ride creation by two users, requests of one user overlapping.
NextCreate ==
    \/ \E u \in Users, route \in Routes : appPostRidesBegin(u, route, MaxCreates)
    \/ \E i \in 1..MaxCreates : appPostRidesCommit(i)

SpecCreate == Init /\ [][NextCreate]_vars

\* where the chairs of the dispatcher specification report to be: c2 can tie
\* with c1 at the pickup point or be further away
DispatchCoords(c) == IF c = "c1" THEN {<<0, 0>>} ELSE {<<0, 0>>, <<1, 1>>}

\* The dispatcher: rides of two users, two chairs that go active (any number of times)
\* and report their location, and passes with every failure the pass handles.
NextDispatch ==
    \/ \E u \in Users, route \in RideRoutes : appPostRidesBegin(u, route, MaxCreates)
    \/ \E i \in 1..MaxCreates : appPostRidesCommit(i)
    \/ \E c \in Chairs : chairPostActivity(c, TRUE)
    \/ \E c \in Chairs : \E xy \in DispatchCoords(c) : chairPostCoordinate(c, xy)
    \/ \E ages \in [SeqToSet(matchingRides) -> Ages], lf \in BOOLEAN, df \in DbFailAts :
           internalGetMatching(ages, lf, df)

SpecDispatch == Init /\ [][NextDispatch]_vars

\* The ticker goroutine with one ride and one chair: the chair goes active once
\* and reports its location, the ride is created, and the ticker ticks; no
\* location read and no store write fails. The ticker never stops, so its tick
\* is weakly fair.
NextTicker ==
    \/ \E route \in RideRoutes : appPostRidesBegin("u1", route, MaxRides)
    \/ \E i \in 1..MaxRides : appPostRidesCommit(i)
    \/ ~chairActive["c1"] /\ chairPostActivity("c1", TRUE)
    \/ chairPostCoordinate("c1", <<0, 0>>)
    \/ ticker([r \in SeqToSet(matchingRides) |-> 0], FALSE, 0)

\* the costs of a table: (pickup distance + ride distance) / speed, as small numbers
Costs == {0, 1, 2}

\* the cost tables with at least one row and one column
CostTables ==
    UNION {[1..rows -> [1..cols -> Costs]] : rows \in 1..MaxDim, cols \in 1..MaxDim}

\* HungarianAlgorithm on its own: any cost table, any number of calls
NextHungarian == \E table \in CostTables : HungarianAlgorithmCall(table)

SpecHungarian == Init /\ [][NextHungarian]_vars

\* the fields of the location aggregates encoded: distances from 0, latitudes
\* and longitudes of either sign around the byte boundaries, times in ms
Distances == {0, 1, 300, 70000}
Latitudes == {-70000, -257, -256, -1, 0, 1, 255, 256, 70000}
Millis == {0, 1700000000}

LocationAggregates ==
    [TotalDistance : Distances, LastLatitude : Latitudes, LastLongitude : Latitudes,
     TotalDistanceUpdatedAt : Millis]

\* The location record on its own: any aggregate is encoded, then decoded
NextRecord ==
    \/ \E location \in LocationAggregates : LocationEncode(location)
    \/ LocationDecode

SpecRecord == Init /\ [][NextRecord]_vars

SpecTicker ==
    /\ Init
    /\ [][NextTicker]_vars
    /\ WF_vars(ticker([r \in SeqToSet(matchingRides) |-> 0], FALSE, 0))

\* the pings of the stream specification: the pickup and the destination of the route
StreamCoords == {<<0, 0>>, <<1, 1>>}

\* The life cycle of one ride with the chair's notification stream: valid
\* requests only, and no failing payment.
NextStream ==
    \/ \E route \in RideRoutes : appPostRidesBegin("u1", route, MaxRides)
    \/ \E i \in 1..MaxRides : appPostRidesCommit(i)
    \/ \E r \in 1..MaxRides : appPostRideEvaluatation(r, 5, "ok")
    \/ \E a \in BOOLEAN : chairPostActivity("c1", a)
    \/ \E xy \in StreamCoords : chairPostCoordinate("c1", xy)
    \/ \E r \in 1..MaxRides, st \in {"ENROUTE", "CARRYING"} : chairPostRideStatus("c1", r, st)
    \/ chairGetNotificationConnect("c1")
    \/ chairGetNotificationRecv("c1")
    \/ internalGetMatching([r \in SeqToSet(matchingRides) |-> 0], FALSE, 0)

SpecStream == Init /\ [][NextStream]_vars

\* The life cycle of one ride with the chair's notification stream and a
\* chair that follows the protocol: it acknowledges a ride it was matched
\* with, and reports CARRYING from the pickup.
NextReturn ==
    \/ \E route \in RideRoutes : appPostRidesBegin("u1", route, MaxRides)
    \/ \E i \in 1..MaxRides : appPostRidesCommit(i)
    \/ \E r \in 1..MaxRides : appPostRideEvaluatation(r, 5, "ok")
    \/ chairPostActivity("c1", TRUE)
    \/ \E xy \in StreamCoords : chairPostCoordinate("c1", xy)
    \/ \E r \in {latestRideCache["c1"]} \ {NoRide} :
           /\ getLatestRideStatus(r) = "MATCHING"
           /\ chairPostRideStatus("c1", r, "ENROUTE")
    \/ \E r \in {latestRideCache["c1"]} \ {NoRide} :
           /\ getLatestRideStatus(r) = "PICKUP"
           /\ chairPostRideStatus("c1", r, "CARRYING")
    \/ chairGetNotificationConnect("c1")
    \/ chairGetNotificationRecv("c1")
    \/ internalGetMatching([r \in SeqToSet(matchingRides) |-> 0], FALSE, 0)

\* the chair connects its notification stream whenever it has none, and a
\* connected stream takes the events that are in its channel
SpecReturn ==
    /\ Init /\ [][NextReturn]_vars
    /\ WF_vars(chairGetNotificationConnect("c1"))
    /\ WF_vars(chairGetNotificationRecv("c1"))

\* The same with the start of the notification handler in two steps: the
\* snapshot frame, then the subscription.  The chair activates itself once.
NextSubscribe ==
    \/ \E route \in RideRoutes : appPostRidesBegin("u1", route, MaxRides)
    \/ \E i \in 1..MaxRides : appPostRidesCommit(i)
    \/ \E r \in 1..MaxRides : appPostRideEvaluatation(r, 5, "ok")
    \/ ~chairActive["c1"] /\ chairPostActivity("c1", TRUE)
    \/ \E xy \in StreamCoords : chairPostCoordinate("c1", xy)
    \/ \E r \in {latestRideCache["c1"]} \ {NoRide} :
           /\ getLatestRideStatus(r) = "MATCHING"
           /\ chairPostRideStatus("c1", r, "ENROUTE")
    \/ \E r \in {latestRideCache["c1"]} \ {NoRide} :
           /\ getLatestRideStatus(r) = "PICKUP"
           /\ chairPostRideStatus("c1", r, "CARRYING")
    \/ chairGetNotificationSnapshot("c1")
    \/ chairGetNotificationSubscribe("c1")
    \/ chairGetNotificationFrame("c1")
    \/ internalGetMatching([r \in SeqToSet(matchingRides) |-> 0], FALSE, 0)

\* the handler goes on to subscribe, and a subscribed stream takes the events
\* that are in its channel
SpecSubscribe ==
    /\ Init /\ [][NextSubscribe]_vars
    /\ WF_vars(chairGetNotificationSubscribe("c1"))
    /\ WF_vars(chairGetNotificationFrame("c1"))

\* a ride whose pickup and destination are the same point
SamePointRoutes == {[pickup |-> <<1, 1>>, dest |-> <<1, 1>>]}

\* The life cycle of a ride that starts and ends at the same point.
NextSamePoint ==
    \/ \E route \in SamePointRoutes : appPostRidesBegin("u1", route, MaxRides)
    \/ \E i \in 1..MaxRides : appPostRidesCommit(i)
    \/ \E r \in 1..MaxRides : appPostRideEvaluatation(r, 5, "ok")
    \/ chairPostActivity("c1", TRUE)
    \/ \E xy \in StreamCoords : chairPostCoordinate("c1", xy)
    \/ \E r \in 1..MaxRides, st \in {"ENROUTE", "CARRYING"} : chairPostRideStatus("c1", r, st)
    \/ internalGetMatching([r \in SeqToSet(matchingRides) |-> 0], FALSE, 0)

SpecSamePoint == Init /\ [][NextSamePoint]_vars

\* The life cycle of one ride with the evaluation handler followed in two
\* steps, so that evaluation requests run concurrently.
NextEvaluate ==
    \/ \E route \in RideRoutes : appPostRidesBegin("u1", route, MaxRides)
    \/ \E i \in 1..MaxRides : appPostRidesCommit(i)
    \/ \E r \in 1..MaxRides : appPostRideEvaluatationBegin(r, 5)
    \/ \E i \in 1..MaxEvaluations, payment \in PaymentResults :
           appPostRideEvaluatationCommit(i, payment)
    \/ chairPostActivity("c1", TRUE)
    \/ \E xy \in StreamCoords : chairPostCoordinate("c1", xy)
    \/ \E r \in 1..MaxRides, st \in {"ENROUTE", "CARRYING"} : chairPostRideStatus("c1", r, st)
    \/ internalGetMatching([r \in SeqToSet(matchingRides) |-> 0], FALSE, 0)

SpecEvaluate == Init /\ [][NextEvaluate]_vars

\* The event bus: streams that subscribe, receive and are cancelled, and
\* handlers that publish concurrently.
NextBus ==
    \/ \E k \in Chairs : ChairSubscribeCall(k)
    \/ \E k \in Chairs : ChairPublishLock(k)
    \/ \E p \in chairPublishers : ChairPublishSend(p)
    \/ \E p \in chairPublishers : ChairPublishUnlock(p)
    \/ \E k \in Chairs, i \in 1..MaxSubscribers : StreamReceive(k, i)
    \/ \E k \in Chairs, i \in 1..MaxSubscribers : StreamCancel(k, i)

SpecBus == Init /\ [][NextBus]_vars

\* coordinates pinged in the location store specification
LocationCoords == {<<0, 0>>, <<1, 0>>, <<1, 2>>}

\* the location store on its own: concurrent updates and reads
NextLocationStore ==
    \/ \E c \in Chairs, xy \in LocationCoords : LocationUpdateRun(c, xy)
    \/ \E t \in locationTxns : LocationUpdateCommit(t)
    \/ \E c \in Chairs : getChairLocationFromBadger(c)

SpecLocation == Init /\ [][NextLocationStore]_vars

\* the dispatcher's assignment loop statement by statement, next to the
\* handlers that feed it
NextAssign ==
    \/ \E route \in RideRoutes : appPostRidesBegin("u1", route, MaxCreates)
    \/ \E i \in 1..MaxCreates : appPostRidesCommit(i)
    \/ chairPostActivity("c1", TRUE)
    \/ \E xy \in StreamCoords : chairPostCoordinate("c1", xy)
    \/ \E ages \in [SeqToSet(matchingRides) -> {0}] : MatchingDrain(ages)
    \/ \E ok \in BOOLEAN : MatchingUpdateRide(ok)
    \/ MatchingStoreCaches
    \/ MatchingPublish
    \/ MatchingEnd

SpecAssign == Init /\ [][NextAssign]_vars

\* POST /api/initialize next to the dispatcher pass, statement by statement,
\* and the handlers that feed the queue and the pool (no injected failure)
NextInitialize ==
    \/ \E route \in RideRoutes : appPostRidesBegin("u1", route, MaxRides)
    \/ \E i \in 1..MaxRides : appPostRidesCommit(i)
    \/ chairPostActivity("c1", TRUE)
    \/ \E xy \in StreamCoords : chairPostCoordinate("c1", xy)
    \/ \E ages \in [SeqToSet(matchingRides) -> {0}] : MatchingDrain(ages)
    \/ MatchingUpdateRide(TRUE)
    \/ MatchingStoreCaches
    \/ MatchingPublish
    \/ MatchingEnd
    \/ postInitialize

SpecInitialize == Init /\ [][NextInitialize]_vars

\* the payment client on its own; every request it sends is answered
NextPayment ==
    \/ PaymentCallStart
    \/ \E i \in 1..MaxPaymentCalls, response \in GatewayResponses : PaymentAttempt(i, response)

SpecPayment ==
    /\ Init /\ [][NextPayment]_vars
    /\ \A i \in 1..MaxPaymentCalls :
           WF_vars(\E response \in GatewayResponses : PaymentAttempt(i, response))

\* inputs of the fare arithmetic
FareCoords == {<<0, 0>>, <<10, 10>>, <<0, 1>>, <<-3, 2>>, <<5, 0>>}
FareDiscounts == {0, 500, 1000, 3000, 5000}

\* the fare arithmetic applied to every input
NextFareFn ==
    \E pickup \in FareCoords, dest \in FareCoords, discount \in FareDiscounts :
        calculateDiscountedFare(pickup, dest, discount)

SpecFareFn == Init /\ [][NextFareFn]_vars

\* a route long enough for every coupon to show in the fare
FareRoutes == {[pickup |-> <<0, 0>>, dest |-> <<20, 20>>]}

\* rides of the invited user u2, one after the other and concurrently, with
\* fare estimates in between; the chair and the user act on the chair's
\* latest ride
NextFare ==
    \/ \E route \in FareRoutes : appPostRidesBegin("u2", route, MaxCreates)
    \/ \E i \in 1..MaxCreates : appPostRidesCommit(i)
    \/ \E route \in FareRoutes : appPostRidesEstimatedFare("u2", route)
    \/ \E r \in {latestRideCache["c1"]} \ {NoRide} : appPostRideEvaluatation(r, 5, "ok")
    \/ chairPostActivity("c1", TRUE)
    \/ \E xy \in {<<0, 0>>, <<20, 20>>} : chairPostCoordinate("c1", xy)
    \/ \E r \in {latestRideCache["c1"]} \ {NoRide}, st \in {"ENROUTE", "CARRYING"} :
           chairPostRideStatus("c1", r, st)
    \/ internalGetMatching([r \in SeqToSet(matchingRides) |-> 0], FALSE, 0)

SpecFare == Init /\ [][NextFare]_vars

----------------------------------------------------------------------------
(* Properties *)

\* The phase of a ride: its latest status; a ride the dispatcher has given a
\* chair and whose status is still MATCHING is in phase MATCHED (the
\* dispatcher publishes MATCHED and records no status of its own).
Phase(r) ==
    IF rideStatusesCache[r] = "MATCHING" /\ rides[r].chair # NoChair THEN "MATCHED"
    ELSE rideStatusesCache[r]

PhaseIndex(p) == CHOOSE i \in DOMAIN PhaseOrder : PhaseOrder[i] = p

\* the phase of the ride of the last call when the call started
PhaseBefore ==
    IF lastCall.before = "MATCHING" /\ lastCall.ride \in RideIds
       /\ rides[lastCall.ride].chair # NoChair
    THEN "MATCHED" ELSE lastCall.before

NoEvents == lastCall.chairPub = <<>> /\ lastCall.userPub = <<>>

\* the last call was a status post by the chair the ride is assigned to
StatusPostByAssignedChair ==
    /\ lastCall.op = "status"
    /\ lastCall.ride \in RideIds
    /\ rides[lastCall.ride].chair = lastCall.who

\* C1: every user has at most one ride whose phase is not COMPLETED, in every
\* reachable state, concurrent create-ride requests of one user included.
C1_SingleActiveRide ==
    \A u \in Users :
        Cardinality({r \in RideIds : rides[r].user = u /\ Phase(r) # "COMPLETED"}) <= 1

\* C2: the phase of a ride never moves backwards and never skips a step: a
\* new ride starts in MATCHING and every change of a ride's phase goes to the
\* next phase of MATCHING, MATCHED, ENROUTE, PICKUP, CARRYING, ARRIVED, COMPLETED.
C2_MonotonicPhase ==
    [][/\ \A r \in RideIds :
              \/ Phase(r)' = Phase(r)
              \/ PhaseIndex(Phase(r)') = PhaseIndex(Phase(r)) + 1
       /\ \A r \in (1..Len(rides')) \ RideIds : Phase(r)' = "MATCHING"]_vars

\* C3: a status post of ENROUTE succeeds only from phase MATCHED; from any
\* other phase it is rejected, the phase is unchanged and nothing is published.
C3_EnrouteOnlyFromMatched ==
    (StatusPostByAssignedChair /\ lastCall.req = "ENROUTE" /\ PhaseBefore # "MATCHED")
        => (lastCall.code # 204 /\ lastCall.after = lastCall.before /\ NoEvents)

\* C4: a status post that is neither ENROUTE nor CARRYING is rejected as
\* invalid and has no effect: no status is stored and nothing is published on
\* either bus.
C4_InvalidStatusNoEffect ==
    (lastCall.op = "status" /\ lastCall.req \notin {"ENROUTE", "CARRYING"})
        => (lastCall.code = 400 \/ lastCall.code = 404)
           /\ lastCall.after = lastCall.before /\ NoEvents

\* C5: a status post of CARRYING for a ride that is not in phase PICKUP is
\* rejected with 400 and leaves the ride's status, the chair's status record
\* and both event buses unchanged.
C5_CarryingBeforePickupRejected ==
    [][\A c \in Chairs, r \in RideIds :
          (chairPostRideStatus(c, r, "CARRYING") /\ Phase(r) # "PICKUP")
              => /\ UNCHANGED <<rideStatusesCache, chairStatusBadger, chairEventBus>>
                 /\ lastCall'.code = 400
                 /\ lastCall'.chairPub = <<>> /\ lastCall'.userPub = <<>>]_vars

\* C5 witness: the assigned chair posted CARRYING while the ride was ENROUTE
\* and got 400
C5_Witness ==
    /\ StatusPostByAssignedChair
    /\ lastCall.req = "CARRYING"
    /\ lastCall.before = "ENROUTE"
    /\ lastCall.code = 400

\* C6: a coordinate ping changes the phase of the chair's current ride in
\* exactly two cases, ENROUTE at the pickup coordinate (to PICKUP) and
\* CARRYING at the destination coordinate (to ARRIVED), equality on both
\* axes, and then publishes the new phase on both buses; every other ping
\* leaves the phase unchanged and publishes nothing.
C6_PingTransitions ==
    lastCall.op = "coordinate" =>
        LET r == lastCall.ride
            published(st) ==
                /\ lastCall.after = st
                /\ lastCall.chairPub = <<Ev(lastCall.who, st, r)>>
                /\ lastCall.userPub = <<Ev(rides[r].user, st, r)>>
        IN IF r # NoRide /\ lastCall.before = "ENROUTE" /\ lastCall.req = rides[r].pickup
           THEN published("PICKUP")
           ELSE IF r # NoRide /\ lastCall.before = "CARRYING" /\ lastCall.req = rides[r].dest
           THEN published("ARRIVED")
           ELSE lastCall.after = lastCall.before /\ NoEvents

\* C6 witnesses: a ping at the pickup moved the ride to PICKUP, and a ping
\* that shares only the latitude with the pickup left an ENROUTE ride alone
C6_Witness ==
    /\ lastCall.op = "coordinate"
    /\ lastCall.before = "ENROUTE"
    /\ lastCall.after = "PICKUP"
    /\ lastCall.chairPub # <<>>

C6_WitnessOneAxis ==
    /\ lastCall.op = "coordinate"
    /\ lastCall.ride # NoRide
    /\ lastCall.before = "ENROUTE"
    /\ lastCall.req[1] = rides[lastCall.ride].pickup[1]
    /\ lastCall.req[2] # rides[lastCall.ride].pickup[2]
    /\ lastCall.after = "ENROUTE"

\* C7: a ping at the pickup coordinate while the ride is already in PICKUP
\* records no transition and publishes nothing.
C7_PickupPingIdempotent ==
    [][\A c \in Chairs :
          LET r == latestRideCache[c]
          IN (r # NoRide /\ Phase(r) = "PICKUP" /\ chairPostCoordinate(c, rides[r].pickup))
              => /\ UNCHANGED <<rideStatusesCache, chairStatusBadger, chairEventBus>>
                 /\ lastCall'.chairPub = <<>> /\ lastCall'.userPub = <<>>]_vars

\* C7 witness: a ping at the pickup returned while the ride was in PICKUP
C7_Witness ==
    /\ lastCall.op = "coordinate"
    /\ lastCall.ride # NoRide
    /\ lastCall.before = "PICKUP"
    /\ lastCall.req = rides[lastCall.ride].pickup
    /\ lastCall.after = "PICKUP"


\* C8: when a dispatcher pass that drained the queue ends -- normally, on "no
\* empty chairs", or after a location-read or store-write failure -- every
\* ride it drained is assigned a chair or back in matchingRides, and every
\* chair it drained is assigned a ride or back in emptyChairs.
C8_NothingLostByTick ==
    (lastCall.op = "matching" /\ lastCall.pass.ending \notin {"none", "no rides"}) =>
        /\ \A r \in SeqToSet(lastCall.pass.rides) :
               MatchedRide(lastCall.pass.assigned, r) \/ r \in SeqToSet(matchingRides)
        /\ \A c \in SeqToSet(lastCall.pass.chairs) :
               MatchedChair(lastCall.pass.assigned, c) \/ c \in SeqToSet(emptyChairs)

\* C9: the pairs a dispatcher pass assigns are candidate pairs in descending
\* score order with pairwise distinct rides and pairwise distinct chairs, each
\* stored as the ride's chair and the chair's latest ride; in a pass that runs
\* to its end every candidate left out lost its ride or its chair to an
\* assigned pair of at least its score.
C9_GreedyAssignment ==
    lastCall.op = "matching" =>
        LET as == lastCall.pass.assigned
            ms == lastCall.pass.matches
        IN /\ \A i, j \in DOMAIN as :
                  i < j => /\ as[i].ride # as[j].ride
                           /\ as[i].ch # as[j].ch
                           /\ ~ScoreLess(as[i].score, as[j].score)
           /\ \A i \in DOMAIN as :
                  /\ as[i] \in ms
                  /\ rides[as[i].ride].chair = as[i].ch
                  /\ latestRideCache[as[i].ch] = as[i].ride
           /\ lastCall.pass.ending = "end" =>
                  \A m \in ms :
                      \E i \in DOMAIN as :
                          /\ as[i].ride = m.ride \/ as[i].ch = m.ch
                          /\ ~ScoreLess(as[i].score, m.score)

\* a pass that drained two rides and a pool listing one chair twice has run to
\* its end and assigned the chair once
C9_Witness ==
    /\ lastCall.op = "matching"
    /\ lastCall.pass.ending = "end"
    /\ Len(lastCall.pass.rides) = 2
    /\ Len(lastCall.pass.chairs) = 2
    /\ Cardinality(SeqToSet(lastCall.pass.chairs)) = 1
    /\ Len(lastCall.pass.assigned) = 1
    /\ Len(matchingRides) = 1

\* C10: a chair whose latest ride is not COMPLETED is not in emptyChairs.
C10_BusyChairNotInPool ==
    \A c \in Chairs :
        (latestRideCache[c] # NoRide /\ getLatestRideStatus(latestRideCache[c]) # "COMPLETED")
            => c \notin SeqToSet(emptyChairs)

\* C11: a chair that is inactive (its deactivation request has returned and
\* it has not been activated since) is not in emptyChairs, so no pass can
\* assign it a ride.
C11_InactiveChairNotInPool ==
    \A c \in Chairs : ~chairActive[c] => c \notin SeqToSet(emptyChairs)

\* C12: a publish never waits: no ChairPublish call stands before a channel
\* whose buffer is full (the message would be dropped for that subscriber
\* and the call would go on).
C12_PublishNeverBlocks ==
    \A p \in chairPublishers :
        p.next <= Len(chairEventBus[p.key]) => Len(chairEventBus[p.key][p.next]) < ChanCap

\* C13: the subscriber list of a key holds no channel of a stream that has
\* returned on its client's cancel.
C13_CancelUnsubscribes ==
    \A k \in Chairs : \A i \in DOMAIN subscriberDone[k] : ~subscriberDone[k][i]

\* C14: in every subscriber channel a message is never behind a message
\* whose publish was called after the first one's had returned, and two
\* channels of the same key hold their common messages in the same order.
C14_PerKeyOrder ==
    \A k \in Chairs : \A i, j \in DOMAIN chairEventBus[k] :
        LET ci == chairEventBus[k][i]
            cj == chairEventBus[k][j]
        IN \A a, b \in DOMAIN ci :
               a < b => /\ ci[b].id \notin ci[a].after
                        /\ \A a2, b2 \in DOMAIN cj :
                               (cj[a2].id = ci[a].id /\ cj[b2].id = ci[b].id) => a2 < b2

\* C15 (frames of the chair side): a stream emits at most one frame for a
\* status transition: when a frame follows the stream's previous frame with no
\* handler call or dispatcher pass in between (so no transition in between),
\* it does not show the same ride and status again.
C15_OneFramePerTransition ==
    [][\A c \in Chairs :
           (chairGetNotificationRecv(c) /\ lastCall.op \in {"snapshot", "frame"} /\ lastCall.who = c)
               => <<lastCall'.ride, lastCall'.req>> # <<lastCall.ride, lastCall.req>>]_vars

PingPath(c) ==
    (IF SeedLocation[c] = NoLocation
     THEN <<>>
     ELSE <<(<<SeedLocation[c].LastLatitude, SeedLocation[c].LastLongitude>>)>>)
    \o commitLog[c]

\* the sum of the Manhattan distances between consecutive coordinates
RECURSIVE PathLength(_)
PathLength(path) ==
    IF Len(path) < 2 THEN 0
    ELSE distance(path[1][1], path[1][2], path[2][1], path[2][2]) + PathLength(Tail(path))

\* the persisted total distance of a chair, 0 for a chair without a record
PersistedTotal(c) ==
    IF locationKV[c] = NoLocation THEN 0 ELSE locationKV[c].TotalDistance

\* the persisted record is the one the committed pings add up to
PersistedAccountsFor(c) ==
    IF PingPath(c) = <<>>
    THEN locationKV[c] = NoLocation
    ELSE LET base == IF SeedLocation[c] = NoLocation THEN 0 ELSE SeedLocation[c].TotalDistance
             last == PingPath(c)[Len(PingPath(c))]
         IN locationKV[c] = [TotalDistance |-> base + PathLength(PingPath(c)),
                             LastLatitude |-> last[1],
                             LastLongitude |-> last[2]]

\* C19: a chair's persisted totalDistance never decreases, and after the
\* committed pings c0..cN it is the sum of the Manhattan distances between
\* consecutive pings (the first ping ever adding 0), the last coordinate
\* being cN.
C19_TotalDistanceIsPathLength ==
    [][\A c \in Chairs :
          /\ PersistedTotal(c)' >= PersistedTotal(c)
          /\ PersistedAccountsFor(c)']_vars

\* three pings of the never seen chair c1 committed, along a path of
\* positive length that does not start at the origin
C19_Witness ==
    /\ Len(commitLog["c1"]) = 3
    /\ commitLog["c1"][1] # <<0, 0>>
    /\ locationKV["c1"].TotalDistance > 0

\* C20: once no location update is running, a chair's cached record is the
\* persisted record; an update that ended in a conflict changed neither.
C20_CacheEqualsStore ==
    (\A t \in locationTxns : t.result # "running")
        => \A c \in Chairs :
              locationCache[c] # NoLocation => locationCache[c] = locationKV[c]

\* the (ride, chair) pairs a pass can assign from the drained rides and
\* chairs, the locations and the ages: one set per order the sort may leave
AssignmentSets(ages) ==
    {{<<res.assigned[i].ride, res.assigned[i].ch>> : i \in DOMAIN res.assigned} :
        res \in {Greedy(ms, <<>>, 0) :
                    ms \in SortedSeqs(Matches(matchingRides, ChairMap(emptyChairs), ages))}}

\* C17: with the same drained rides, drained chairs, locations and clock a
\* pass assigns the same set of (ride, chair) pairs, whatever the order of
\* the chairs out of the map and of pairs with equal scores.
C17_DeterministicPass ==
    \A ages \in [SeqToSet(matchingRides) -> Ages] :
        Cardinality(AssignmentSets(ages)) <= 1

C22_OneKeyPerCall ==
    \A i, j \in DOMAIN paymentCalls :
        \A a \in DOMAIN paymentCalls[i].sent, b \in DOMAIN paymentCalls[j].sent :
            (paymentCalls[i].sent[a] = paymentCalls[j].sent[b]) <=> (i = j)

\* two calls have each sent a retry
C22_Witness ==
    /\ Len(paymentCalls) = 2
    /\ \A i \in DOMAIN paymentCalls : Len(paymentCalls[i].sent) >= 2

\* an evaluation request whose payment call failed: the ride was ARRIVED,
\* the evaluation valid, and the answer is not 200
PaymentFailed ==
    /\ lastCall.op = "evaluation"
    /\ lastCall.before = "ARRIVED"
    /\ lastCall.req \in 1..5
    /\ lastCall.code # 200

\* C23: an evaluation request whose payment call failed on every attempt
\* answers 502.
C23_PaymentFailureIs502 == PaymentFailed => lastCall.code = 502

\* C24: a ride is COMPLETED only through an evaluation request whose payment
\* call succeeded; a failed payment call leaves the ride ARRIVED, without an
\* evaluation, and publishes nothing.
C24_CompletedOnlyAfterPayment ==
    [][/\ \A r \in DOMAIN rideStatusesCache :
             (rideStatusesCache'[r] = "COMPLETED" /\ rideStatusesCache[r] # "COMPLETED")
                 => \E e \in 1..5 : appPostRideEvaluatation(r, e, "ok")
       /\ \A r \in RideIds, e \in 1..5, err \in PaymentErrors :
             (getLatestRideStatus(r) = "ARRIVED" /\ appPostRideEvaluatation(r, e, err)) =>
                 /\ UNCHANGED <<rides, rideStatusesCache, chairEventBus>>
                 /\ lastCall'.code # 200
                 /\ lastCall'.chairPub = <<>> /\ lastCall'.userPub = <<>>]_vars

\* C25: an evaluation request for a ride that is not ARRIVED answers 400,
\* whatever the payment gateway would have said, and stores and publishes
\* nothing.
C25_EvaluationNeedsArrived ==
    [][\A r \in RideIds, e \in Evaluations, payment \in PaymentResults :
          (/\ lastCall'.op = "evaluation"
           /\ getLatestRideStatus(r) # "ARRIVED"
           /\ appPostRideEvaluatation(r, e, payment)) =>
              /\ lastCall'.code = 400
              /\ UNCHANGED <<rides, rideStatusesCache, chairEventBus>>
              /\ lastCall'.chairPub = <<>> /\ lastCall'.userPub = <<>>
              /\ \A other \in PaymentResults : appPostRideEvaluatation(r, e, other)]_vars

\* a valid evaluation of a ride that is still CARRYING has been rejected
C25_Witness ==
    /\ lastCall.op = "evaluation"
    /\ lastCall.req = 5
    /\ lastCall.before = "CARRYING"
    /\ lastCall.code = 400

\* the user has a ride that is not COMPLETED
HasActiveRide(u) == \E r \in RideIds : rides[r].user = u /\ rideStatusesCache[r] # "COMPLETED"

\* C26: a create-ride request of a user who has a ride that is not COMPLETED
\* answers 409 and changes nothing: no ride, no status, no coupon binding,
\* nothing enqueued, nothing published.
C26_ActiveRideConflict ==
    [][\A u \in Users, route \in FareRoutes :
          (HasActiveRide(u) /\ appPostRidesBegin(u, route, MaxCreates)) =>
              /\ lastCall'.op = "postRides" /\ lastCall'.who = u /\ lastCall'.code = 409
              /\ lastCall'.userPub = <<>> /\ lastCall'.chairPub = <<>>
              /\ UNCHANGED <<rides, rideStatusesCache, coupons, matchingRides, postRidesTx,
                             chairEventBus>>]_vars

\* a create-ride request has been refused while the user's coupons were
\* partly unused
C26_Witness ==
    /\ lastCall.op = "postRides"
    /\ lastCall.code = 409
    /\ HasActiveRide(lastCall.who)
    /\ FirstUnused(coupons[lastCall.who]) # 0

\* C27: the discounted fare is max(500, 500 + 100 * manhattan - discount),
\* never below 500, and 500 for (0,0) -> (10,10) with the 3000 coupon.
C27_DiscountedFare ==
    lastFare.op = "fare" =>
        LET full == 500 + 100 * (abs(lastFare.pickup[1] - lastFare.dest[1])
                                 + abs(lastFare.pickup[2] - lastFare.dest[2]))
                    - lastFare.discount
        IN /\ lastFare.fare = IF full > 500 THEN full ELSE 500
           /\ lastFare.fare >= 500
           /\ (lastFare.pickup = <<0, 0>> /\ lastFare.dest = <<10, 10>> /\ lastFare.discount = 3000)
                  => lastFare.fare = 500

\* the fare of (0,0) -> (10,10) with the 3000 coupon has been computed
C27_Witness ==
    /\ lastFare.op = "fare"
    /\ lastFare.pickup = <<0, 0>> /\ lastFare.dest = <<10, 10>> /\ lastFare.discount = 3000
    /\ lastFare.fare = 500

\* C28: a create-ride request of a user without an active ride answers the
\* fare the estimate answers for the same pair in the state the request
\* commits in, and the estimate leaves the coupons as they are.
C28_EstimateMatchesCreate ==
    [][/\ \A i \in DOMAIN postRidesTx :
             (~HasActiveRide(postRidesTx[i].user) /\ appPostRidesCommit(i)) =>
                 /\ lastFare'.op = "create"
                 /\ lastFare'.fare = EstimatedFare(postRidesTx[i].user, postRidesTx[i].route)
       /\ \A u \in Users, route \in FareRoutes :
             appPostRidesEstimatedFare(u, route) =>
                 /\ coupons' = coupons
                 /\ lastFare'.fare = EstimatedFare(u, route)]_vars

\* a second ride of the user has been created at the fare of the invitation
\* coupon, the first-ride coupon being used
C28_Witness ==
    /\ lastFare.op = "create"
    /\ lastFare.ride = 2
    /\ coupons["u2"][1].usedBy = 1
    /\ coupons["u2"][2].usedBy = 2
    /\ lastFare.discount = 1500
    /\ rideStatusesCache[1] = "COMPLETED"

\* the coupons bound to ride r
BoundTo(r) ==
    UNION {{<<u, i>> : i \in {j \in DOMAIN coupons[u] : coupons[u][j].usedBy = r}} : u \in Users}

\* C29: a bound coupon stays bound to its ride, a coupon is bound only to a
\* ride of its user, and a ride has at most one coupon, concurrent
\* create-ride requests of one user included.
C29_CouponBoundOnce ==
    [][/\ \A u \in Users : \A i \in DOMAIN coupons[u] :
             coupons[u][i].usedBy # NoRide => coupons'[u][i] = coupons[u][i]
       /\ \A r \in 1..Len(rides') : Cardinality(BoundTo(r)') <= 1
       /\ \A u \in Users : \A i \in DOMAIN coupons'[u] :
             coupons'[u][i].usedBy # NoRide =>
                 /\ coupons'[u][i].usedBy \in 1..Len(rides')
                 /\ rides'[coupons'[u][i].usedBy].user = u]_vars

\* two create-ride requests of u2 that ran concurrently have each bound a
\* coupon
C29_Witness ==
    /\ Len(rides) >= 2
    /\ rideStatusesCache[1] = "MATCHING" /\ rideStatusesCache[2] = "MATCHING"
    /\ Cardinality(BoundTo(1)) = 1
    /\ Cardinality(BoundTo(2)) = 1
    /\ BoundTo(1) # BoundTo(2)

\* the relational store is as POST /api/initialize left it: the reset has
\* removed the rides there were and no handler has written a ride or a chair
\* since
StoreAsInitialized ==
    /\ RideIds # {}
    /\ \A r \in RideIds : ~RideInStore(rides, r)
    /\ \A c \in Chairs : ~chairActive[c]

\* C30: once POST /api/initialize has completed and the dispatcher pass that
\* was in flight has ended, the idle-chair pool holds exactly the active
\* chairs that have no uncompleted ride in the relational store and the
\* pending-ride queue holds exactly the rides of the relational store in
\* phase MATCHING; nothing that a pass drained before the reset comes back.
C30_ResetCarriesNothingOver ==
    StoreAsInitialized /\ matchingPass.phase = "idle" =>
        /\ SeqToSet(emptyChairs) = IdleChairsInStore(chairActive, rides, rideStatusesCache)
        /\ matchingRides = MatchingRidesInStore(rides, rideStatusesCache)

\* the phases a chair's status record names while its ride is under way
UnderWay == {"ENROUTE", "PICKUP", "CARRYING", "ARRIVED"}

\* C31: for every chair, the persisted status record agrees with the latest
\* phase of the chair's current ride once the handlers have returned: it
\* reads ENROUTE, PICKUP, CARRYING or ARRIVED while the ride is in that phase
\* (and so never AVAILABLE while the ride is under way).
C31_StatusRecordAgrees ==
    \A c \in Chairs :
        LET r == latestRideCache[c]
            record == chairStatusBadger[c]
        IN (r # NoRide /\ rides[r].chair = c /\ getLatestRideStatus(r) \in UnderWay)
               => record = [status |-> getLatestRideStatus(r), rideID |-> r]

\* the last call was a ping at the one point that is both the pickup and the
\* destination of the chair's ride
PingAtSamePoint ==
    /\ lastCall.op = "coordinate"
    /\ lastCall.ride # NoRide
    /\ rides[lastCall.ride].pickup = rides[lastCall.ride].dest
    /\ lastCall.req = rides[lastCall.ride].pickup

\* C32: one coordinate ping causes at most one transition: when a ride's
\* pickup and destination are equal, a ping there in phase ENROUTE yields
\* PICKUP only, never ARRIVED in the same request, and in phase CARRYING
\* yields ARRIVED only.
C32_OneTransitionPerPing ==
    PingAtSamePoint =>
        LET c == lastCall.who
            r == lastCall.ride
            only(st) ==
                /\ lastCall.after = st
                /\ lastCall.chairPub = <<Ev(c, st, r)>>
                /\ lastCall.userPub = <<Ev(rides[r].user, st, r)>>
        IN /\ Len(lastCall.chairPub) <= 1 /\ Len(lastCall.userPub) <= 1
           /\ lastCall.before = "ENROUTE" => only("PICKUP")
           /\ lastCall.before = "CARRYING" => only("ARRIVED")

\* a ping at the common point has moved an ENROUTE ride to PICKUP
C32_Witness ==
    /\ PingAtSamePoint
    /\ lastCall.before = "ENROUTE"
    /\ lastCall.after = "PICKUP"
    /\ getLatestRideStatus(lastCall.ride) = "PICKUP"

\* C33: under two concurrent evaluation requests for the same ARRIVED ride
\* the gateway is charged for at most one logical payment (one
\* Idempotency-Key) and at most one COMPLETED transition is recorded and
\* published: the request that comes second, when the ride is COMPLETED
\* already, sends no payment and records and publishes nothing.
C33_OneCompletionPerRide ==
    [][\A i \in DOMAIN evaluationTx, payment \in PaymentResults :
          (/\ getLatestRideStatus(evaluationTx[i].ride) = "COMPLETED"
           /\ appPostRideEvaluatationCommit(i, payment))
              => /\ UNCHANGED <<paymentCalls, ulidCount, rides, rideStatusesCache, chairEventBus>>
                 /\ lastCall'.code # 200
                 /\ lastCall'.chairPub = <<>> /\ lastCall'.userPub = <<>>]_vars

\* the chair's latest ride is COMPLETED and the chair is active
ChairRideCompleted(c) ==
    /\ chairActive[c]
    /\ latestRideCache[c] # NoRide
    /\ getLatestRideStatus(latestRideCache[c]) = "COMPLETED"

\* C34: after a ride reaches COMPLETED its chair eventually re-enters the
\* idle-chair pool, while the chair stays active, also when the chair's
\* notification stream was not subscribed when COMPLETED was published and
\* connects afterwards.
C34_CompletedChairReturns ==
    ChairRideCompleted("c1") ~> ("c1" \in SeqToSet(emptyChairs) \/ ~chairActive["c1"])

\* the last frame the chair's stream wrote shows the latest status of the
\* chair's latest ride
StreamUpToDate(c) ==
    /\ latestRideCache[c] # NoRide
    /\ chairStream[c].ride = latestRideCache[c]
    /\ chairStream[c].sent = getLatestRideStatus(latestRideCache[c])

\* C35: a connected notification stream never permanently misses a
\* transition: a transition published after the stream read its snapshot and
\* before it subscribed is still delivered to the stream, or shows in a later
\* frame.
C35_NoTransitionMissed ==
    chairStream["c1"].on ~> StreamUpToDate("c1")

\* an active chair with a known location that waits in the idle-chair pool
ChairAvailable(c) ==
    /\ chairActive[c]
    /\ locationCache[c] # NoLocation
    /\ c \in SeqToSet(emptyChairs)

\* C36: with a weakly fair ticker, if from some point on chair c1 stays
\* available (active, idle in the pool, location known), a ride that is in
\* the pending-ride queue is eventually assigned a chair, also when the pool
\* never holds more than five chairs.
C36_QueuedRideAssigned ==
    <>[]ChairAvailable("c1") =>
        ((1 \in SeqToSet(matchingRides)) ~> (1 \in RideIds /\ rides[1].chair # NoChair))

\* the smaller of two numbers
Min(a, b) == IF a < b THEN a ELSE b

\* the pass that returned last ran to its end, drained at least one ride and
\* one chair, and every chair it drained has a known location
FullPassOverLocatedChairs ==
    /\ lastCall.op = "matching"
    /\ lastCall.pass.ending = "end"
    /\ \A c \in SeqToSet(lastCall.pass.chairs) : locationCache[c] # NoLocation

\* C37: a dispatcher pass that runs to its end (no store write fails) over R
\* drained rides and C distinct drained chairs, all with a known location,
\* makes exactly min(R, C) assignments.
C37_GreedyIsMaximal ==
    FullPassOverLocatedChairs =>
        Len(lastCall.pass.assigned) =
            Min(Len(lastCall.pass.rides), Cardinality(SeqToSet(lastCall.pass.chairs)))

\* a full pass over two rides and two distinct located chairs assigned both rides
C37_Witness ==
    /\ FullPassOverLocatedChairs
    /\ Len(lastCall.pass.rides) = 2
    /\ Cardinality(SeqToSet(lastCall.pass.chairs)) = 2
    /\ Len(lastCall.pass.assigned) = 2

\* a full pass over one ride and two distinct located chairs assigned the ride once
C37_WitnessMoreChairs ==
    /\ FullPassOverLocatedChairs
    /\ Len(lastCall.pass.rides) = 1
    /\ Cardinality(SeqToSet(lastCall.pass.chairs)) = 2
    /\ Len(lastCall.pass.assigned) = 1

\* C38: the assignment HungarianAlgorithm returns for a cost table with at
\* least one row and one column gives no column index to two different rows;
\* a row without a column has -1.
C38_NoColumnTwice ==
    assignmentResults # NoAssignment =>
        LET a == assignmentResults.assignment
            cols == Len(assignmentResults.table[1])
        IN /\ \A x \in DOMAIN a : a[x] = -1 \/ a[x] \in Idx(cols)
           /\ \A x1, x2 \in DOMAIN a : (x1 # x2 /\ a[x1] # -1) => a[x1] # a[x2]

\* C39: decoding the 32-byte little-endian record that encoding a location
\* aggregate produced gives the aggregate back (total distance, last latitude,
\* last longitude, update time), negative latitudes and longitudes included.
C39_RecordRoundTrip ==
    /\ locationRecord.data # <<>> =>
           /\ Len(locationRecord.data) = 32
           /\ \A i \in DOMAIN locationRecord.data : locationRecord.data[i] \in 0..255
    /\ locationRecord.decoded # <<>> => locationRecord.decoded = locationRecord.location

\* an aggregate with a negative latitude and a negative longitude that need
\* more than one byte went through the record and came back
C39_Witness ==
    /\ locationRecord.decoded # <<>>
    /\ locationRecord.location.LastLatitude < -256
    /\ locationRecord.location.LastLongitude = -257
    /\ locationRecord.location.TotalDistanceUpdatedAt > 0
    /\ locationRecord.decoded = locationRecord.location

====
